---- MODULE Spec2Model ----
(***************************************************************************)
(* Model of the supervision-hours pipeline of weekly-supervision-pull:     *)
(*   pull_data.execute_supervision_query  (SUPERVISION_HOURS_SQL_TEMPLATE) *)
(*   transform_data.transform_data        (pandas de-duplication, grouping)*)
(*   pull_data.execute_bacb_query         (BACB_SUPERVISION_TEMPLATE)      *)
(*   merge_data.merge_data                (left merge, totals, percentage) *)
(*   run_pipeline.main                    (the three phases in one run)    *)
(*   pull_data.get_db_connection          (the ODBC configurations tried)  *)
(*   merge_data.save_to_google_drive_folder (archive, then copy)           *)
(*                                                                         *)
(* Conventions                                                             *)
(*   - a string is a sequence of one-character strings; SQL NULL / pandas  *)
(*     NaN of a string column is the sentinel NullStr, of an id column 0;  *)
(*   - a time is a number of seconds since midnight of the reporting day;  *)
(*   - T-SQL numeric(17,6) values (x / 60.0) are integers in micro-hours,  *)
(*     DECIMAL(10,2) values are integers in centi-hours (150 = 1.50 h);    *)
(*   - a table is a set of records; where SQL keeps duplicate rows (bag    *)
(*     semantics) the rows carry the row identity that distinguishes them; *)
(*   - ORDER BY compares text without regard to case; no two texts of the  *)
(*     tables differ only in case, so DISTINCT, GROUP BY and the joins     *)
(*     compare text by equality;                                           *)
(*   - a DataFrame is the sequence of its rows, a row a record of its      *)
(*     columns.                                                            *)
(*                                                                         *)
(* Specifications                                                          *)
(*   Spec       the pipeline over batches of a day of billing entries and  *)
(*              several states of the Contacts and Employee tables;        *)
(*   SpecPairs  the pipeline over one direct and one supervision entry on  *)
(*              a grid of times;                                           *)
(*   SpecFrames transform_data over frames read from a file;               *)
(*   SpecMerge  merge_data over a transformed file and a BACB file;        *)
(*   SpecMain   run_pipeline.main, every phase returning or raising;       *)
(*   SpecPull   pull_data_main over every outcome of the four connection   *)
(*              attempts;                                                  *)
(*   SpecClinics transform_data over rows of every office and location     *)
(*              text the Clinic column distinguishes;                      *)
(*   SpecDirect the pipeline over a day of direct entries of one provider  *)
(*              and the supervision entries that overlap them;             *)
(*   SpecDrive  save_to_google_drive_folder called repeatedly while the    *)
(*              clock advances.                                            *)
(***************************************************************************)
EXTENDS Integers, Sequences, FiniteSets, TLC

VARIABLES
    billing,        \* rows of dw2.BillingEntriesCurrent joined to ServiceCode
    contacts,       \* rows of dw2.Contacts
    employee,       \* rows of insights.Employee
    pc,             \* position of the run: "start", "pulled", "transformed",
                    \* "merged", "failed"
    cte,            \* the common table expressions of the executed query
    raw_df,         \* DataFrame returned by execute_supervision_query
    transformed_df, \* DataFrame returned by transform_data
    bacb_df,        \* DataFrame returned by execute_bacb_query
    final_df,       \* DataFrame returned by merge_data
    log,            \* the phases that logged their completion, in order
    error,          \* the exception that ended the run, "" when none
    exit_code,      \* what main returned: 0, 1, or -1 while it runs
    odbc,           \* what pyodbc.connect does for each driver configuration
    attempts,       \* the driver configurations get_db_connection tried
    conn,           \* the connection of the pull: its driver configuration
                    \* and whether it is open
    target_folder,  \* the files directly in the Google Drive folder
    archive_folder, \* the files in its 'archived' folder
    clock           \* the second datetime.now() reads

vars == <<billing, contacts, employee, pc, cte, raw_df, transformed_df,
          bacb_df, final_df, log, error, exit_code,
          odbc, attempts, conn, target_folder, archive_folder, clock>>

----------------------------------------------------------------------------
(* Strings                                                                 *)

NullStr == <<"NULL">>

IsNull(s) == s = NullStr

\* Printable ASCII in code-point order (code 32 is the first element); the
\* quote, backslash and backtick characters are written by name.
Ascii ==
    << " ", "!", "QUOTE", "#", "$", "%", "&", "'", "(", ")", "*", "+", ",", "-", ".", "/",
       "0", "1", "2", "3", "4", "5", "6", "7", "8", "9", ":", ";", "<", "=", ">", "?",
       "@", "A", "B", "C", "D", "E", "F", "G", "H", "I", "J", "K", "L", "M", "N", "O",
       "P", "Q", "R", "S", "T", "U", "V", "W", "X", "Y", "Z", "[", "BACKSLASH", "]", "^", "_",
       "BACKTICK", "a", "b", "c", "d", "e", "f", "g", "h", "i", "j", "k", "l", "m", "n", "o",
       "p", "q", "r", "s", "t", "u", "v", "w", "x", "y", "z", "{", "|", "}", "~" >>

AsciiChars == {Ascii[i] : i \in 1..Len(Ascii)}

CodePoint == [c \in AsciiChars |-> 31 + (CHOOSE i \in 1..Len(Ascii) : Ascii[i] = c)]

\* str.lower() of one character.
LowerChar == [c \in AsciiChars |->
                 IF CodePoint[c] >= 65 /\ CodePoint[c] <= 90
                 THEN Ascii[CodePoint[c] + 32 - 31] ELSE c]

Lower(s) == [i \in 1..Len(s) |-> LowerChar[s[i]]]

\* The least element of a non-empty set of integers.
Least(S) == CHOOSE i \in S : \A j \in S : i <= j

\* Python's < on str: lexicographic by code point.
StrLess(a, b) ==
    LET m == IF Len(a) < Len(b) THEN Len(a) ELSE Len(b)
        differ == {i \in 1..m : a[i] # b[i]}
    IN  IF differ = {} THEN Len(a) < Len(b)
        ELSE CodePoint[a[Least(differ)]] < CodePoint[b[Least(differ)]]

\* The key a case-insensitive collation compares a nullable string by.
CollationKey(s) == IF IsNull(s) THEN NullStr ELSE Lower(s)

\* ORDER BY on collation keys: NULL sorts first.
SqlKeyLess(a, b) ==
    IF a = b THEN FALSE
    ELSE IF IsNull(a) THEN TRUE
    ELSE IF IsNull(b) THEN FALSE
    ELSE StrLess(a, b)

\* pandas sort order of an object column: NaN after every value.
NaLastStrLess(a, b) ==
    IF a = b THEN FALSE
    ELSE IF IsNull(a) THEN FALSE
    ELSE IF IsNull(b) THEN TRUE
    ELSE StrLess(a, b)

----------------------------------------------------------------------------
(* Sequences                                                               *)

\* Stable sort of seq by a strict weak order: before[i][j] says that the
\* i-th element sorts before the j-th.
StableSort(seq, before) ==
    LET n == Len(seq)
        place == { << 1 + Cardinality({j \in 1..n :
                            \/ before[j][i]
                            \/ ~before[i][j] /\ j < i}), i >> : i \in 1..n }
    IN  [k \in 1..n |-> seq[(CHOOSE p \in place : p[1] = k)[2]]]

\* df[mask]: the elements of seq at the positions where mask holds, in order.
Select(seq, mask) ==
    LET idx == {i \in 1..Len(seq) : mask[i]}
        nth(k) == CHOOSE i \in idx : Cardinality({j \in idx : j <= i}) = k
    IN  [k \in 1..Cardinality(idx) |-> seq[nth(k)]]

\* seq without the later copies of an element (keep the first occurrence).
Unique(seq) ==
    LET idx == {i \in 1..Len(seq) : \A j \in 1..(i - 1) : seq[j] # seq[i]}
        nth(k) == CHOOSE i \in idx : Cardinality({j \in idx : j <= i}) = k
    IN  [k \in 1..Cardinality(idx) |-> seq[nth(k)]]

\* df[col]: the column of a frame.
Column(frame, col) == [i \in 1..Len(frame) |-> frame[i][col]]

Range(seq) == {seq[i] : i \in 1..Len(seq)}

RECURSIVE SumSeq(_)
SumSeq(seq) == IF seq = <<>> THEN 0 ELSE Head(seq) + SumSeq(Tail(seq))

RECURSIVE SumFn(_, _)
\* Sum of f[x] over the finite set S (SQL SUM over the rows S).
SumFn(f, S) ==
    IF S = {} THEN 0
    ELSE LET x == CHOOSE y \in S : TRUE IN f[x] + SumFn(f, S \ {x})

RECURSIVE SetToSeq(_)
\* Some enumeration of the finite set S.
SetToSeq(S) ==
    IF S = {} THEN <<>>
    ELSE LET x == CHOOSE y \in S : TRUE IN <<x>> \o SetToSeq(S \ {x})

RECURSIVE SubsetsUpTo(_, _)
\* The subsets of S with at most n elements.
SubsetsUpTo(S, n) ==
    IF n = 0 THEN {{}}
    ELSE LET B == SubsetsUpTo(S, n - 1) IN B \cup {b \cup {e} : b \in B, e \in S}

Reverse(seq) == [i \in 1..Len(seq) |-> seq[Len(seq) + 1 - i]]

----------------------------------------------------------------------------
(* T-SQL arithmetic                                                        *)

Abs(x) == IF x < 0 THEN 0 - x ELSE x

Sign(x) == IF x < 0 THEN 0 - 1 ELSE 1

\* Seconds since midnight of h:m:s.
HMS(h, m, s) == (h * 60 + m) * 60 + s

\* DATEDIFF(MINUTE, a, b): the number of minute boundaries between a and b.
DATEDIFF_MINUTE(a, b) == (b \div 60) - (a \div 60)

\* n / 60.0 for an int n: numeric(17,6), i.e. micro-hours, the quotient cut
\* after six decimals.
DivideBy60(n) ==
    Sign(n) * ((Abs(n) \div 60) * 1000000 + ((Abs(n) % 60) * 1000000) \div 60)

\* CAST(x AS DECIMAL(10,2)) of a numeric with six decimals: centi-hours,
\* rounded half away from zero.
CastDecimal2(x) == Sign(x) * ((Abs(x) + 5000) \div 10000)

\* A DECIMAL(10,2) value widened to six decimals for mixed arithmetic.
Widen(c) == c * 10000

----------------------------------------------------------------------------
(* Tables read by the query                                                *)

\* insights.Client: one row per client.
Client ==
    { [ClientId |-> 1,
       ClientFullName |-> <<"K","i","d"," ","A">>,
       ClientOfficeLocationName |-> <<"A","s","h"," ","C","l","i","n","i","c">>],
      [ClientId |-> 2,
       ClientFullName |-> <<"K","i","d"," ","B">>,
       ClientOfficeLocationName |->
           <<"O","R","G","A","N","I","Z","A","T","I","O","N",":"," ","A","s","h">>] }

\* The reporting window [start_date, end_date) of the pull: one day.
start_date == HMS(0, 0, 0)

end_date == HMS(24, 0, 0)

\* The row a LEFT JOIN yields when dw2.Contacts has no match.
NullContact == [RowId |-> 0, ContactId |-> 0, FirstName |-> NullStr, LastName |-> NullStr]

\* The row a LEFT JOIN yields when insights.Employee has no match.
NullEmployee ==
    [EmployeeId |-> 0, EmployeeFirstName |-> NullStr, EmployeeLastName |-> NullStr,
     EmploymentPosition |-> "NULL"]

\* LEFT JOIN dw2.Contacts p ON p.ContactId = id
LeftJoinContacts(id) ==
    LET m == {c \in contacts : c.ContactId = id}
    IN  IF m = {} THEN {NullContact} ELSE m

\* LEFT JOIN insights.Employee e ON e.EmployeeFirstName = c.FirstName
\*                              AND e.EmployeeLastName = c.LastName
\* (a NULL name equals nothing).
LeftJoinEmployee(c) ==
    LET m == {e \in employee :
                 /\ ~IsNull(c.FirstName) /\ ~IsNull(c.LastName)
                 /\ e.EmployeeFirstName = c.FirstName
                 /\ e.EmployeeLastName = c.LastName}
    IN  IF m = {} THEN {NullEmployee} ELSE m

\* WHERE e.EmploymentPosition NOT IN ('BCBA', 'Board Certified Behavior Analyst')
\*    OR e.EmploymentPosition IS NULL
NotBCBA(e) ==
    \/ /\ e.EmploymentPosition # "NULL"
       /\ e.EmploymentPosition \notin {"BCBA", "Board Certified Behavior Analyst"}
    \/ e.EmploymentPosition = "NULL"

\* The direct provider's Contacts rows that survive the Employee filter.
DirectContacts(id) ==
    {c \in LeftJoinContacts(id) : \E e \in LeftJoinEmployee(c) : NotBCBA(e)}

----------------------------------------------------------------------------
(* SUPERVISION_HOURS_SQL_TEMPLATE, one definition per common table         *)
(* expression                                                              *)

SERVICE_CODES == {"97155", "97153", "Non-billable: PM Admin", "PDS | BCBA"}

DIRECT_SERVICE_CODE == "97153"

SUPERVISION_SERVICE_CODES == {"97155", "Non-billable: PM Admin", "PDS | BCBA"}

COALESCE(v, dflt) == IF IsNull(v) THEN dflt ELSE v

Unknown == <<"(","U","n","k","n","o","w","n",")">>

base(entries) ==
    { [BillingEntryId |-> x[1].BillingEntryId,
       ClientContactId |-> x[1].ClientContactId,
       ClientFullName |-> x[2].ClientFullName,
       ClientOfficeLocationName |-> x[2].ClientOfficeLocationName,
       ProviderContactId |-> x[1].ProviderContactId,
       ServiceCode |-> x[1].ServiceCode,
       ServiceStartTime |-> x[1].ServiceStartTime,
       ServiceEndTime |-> x[1].ServiceEndTime,
       ServiceLocationName |-> COALESCE(x[1].ServiceLocationName, Unknown)] :
      x \in {y \in entries \X Client :
                /\ y[1].ClientContactId = y[2].ClientId
                /\ y[1].ServiceEndTime >= start_date
                /\ y[1].ServiceEndTime < end_date
                /\ y[1].ServiceCode \in SERVICE_CODES} }

\* The columns direct and supervision select from base; BillingEntryId stays
\* as the identity of the row (the SELECT keeps duplicate rows).
IntervalRow(b) ==
    [BillingEntryId |-> b.BillingEntryId,
     ClientContactId |-> b.ClientContactId,
     ClientFullName |-> b.ClientFullName,
     ClientOfficeLocationName |-> b.ClientOfficeLocationName,
     ProviderContactId |-> b.ProviderContactId,
     ServiceStartTime |-> b.ServiceStartTime,
     ServiceEndTime |-> b.ServiceEndTime,
     ServiceLocationName |-> b.ServiceLocationName]

direct(base_) ==
    {IntervalRow(b) : b \in {r \in base_ : r.ServiceCode = DIRECT_SERVICE_CODE}}

\* A supervision set with no WHERE over base.
every_base_row(base_) == {IntervalRow(b) : b \in base_}

supervision(base_) ==
    {IntervalRow(b) : b \in {r \in base_ : r.ServiceCode \in SUPERVISION_SERVICE_CODES}}

\* A two-case rule that only asks which entry starts first.
OverlapHoursByStart(d, s) ==
    IF d.ServiceStartTime < s.ServiceStartTime
    THEN DivideBy60(DATEDIFF_MINUTE(s.ServiceStartTime, d.ServiceEndTime))
    ELSE DivideBy60(DATEDIFF_MINUTE(d.ServiceStartTime, s.ServiceEndTime))

\* The CASE expression of overlap_raw, in micro-hours.
OverlapHoursCase(d, s) ==
    IF d.ServiceStartTime >= s.ServiceStartTime /\ d.ServiceEndTime <= s.ServiceEndTime
    THEN DivideBy60(DATEDIFF_MINUTE(d.ServiceStartTime, d.ServiceEndTime))
    ELSE IF d.ServiceStartTime < s.ServiceStartTime /\ d.ServiceEndTime > s.ServiceEndTime
    THEN DivideBy60(DATEDIFF_MINUTE(s.ServiceStartTime, s.ServiceEndTime))
    ELSE IF d.ServiceStartTime < s.ServiceStartTime
    THEN DivideBy60(DATEDIFF_MINUTE(s.ServiceStartTime, d.ServiceEndTime))
    ELSE DivideBy60(DATEDIFF_MINUTE(d.ServiceStartTime, s.ServiceEndTime))

\* A join that also pairs entries that only touch at an endpoint.
OverlapJoinInclusive(d, s) ==
    /\ s.ClientContactId = d.ClientContactId
    /\ d.ServiceStartTime <= s.ServiceEndTime
    /\ d.ServiceEndTime >= s.ServiceStartTime

\* The ON condition of overlap_raw's join.
OverlapJoin(d, s) ==
    /\ s.ClientContactId = d.ClientContactId
    /\ d.ServiceStartTime < s.ServiceEndTime
    /\ d.ServiceEndTime > s.ServiceStartTime

overlap_raw(direct_, supervision_) ==
    { [DirectEntryId |-> x[1].BillingEntryId,
       SupervisionEntryId |-> x[2].BillingEntryId,
       ClientContactId |-> x[1].ClientContactId,
       ClientFullName |-> x[1].ClientFullName,
       ClientOfficeLocationName |-> x[1].ClientOfficeLocationName,
       DirectProviderId |-> x[1].ProviderContactId,
       SupervisorProviderId |-> x[2].ProviderContactId,
       DirectServiceLocationName |-> x[1].ServiceLocationName,
       SupervisorServiceLocationName |-> x[2].ServiceLocationName,
       OverlapHours |-> OverlapHoursCase(x[1], x[2])] :
      x \in {y \in direct_ \X supervision_ : OverlapJoin(y[1], y[2])} }

\* The GROUP BY columns of overlap.
OverlapKey(r) ==
    [ClientContactId |-> r.ClientContactId,
     ClientFullName |-> r.ClientFullName,
     ClientOfficeLocationName |-> r.ClientOfficeLocationName,
     DirectProviderId |-> r.DirectProviderId,
     SupervisorProviderId |-> r.SupervisorProviderId,
     DirectServiceLocationName |-> r.DirectServiceLocationName,
     SupervisorServiceLocationName |-> r.SupervisorServiceLocationName]

overlap(overlap_raw_) ==
    LET rows == {r \in overlap_raw_ : r.OverlapHours > 0}
        hours == [r \in rows |-> r.OverlapHours]
    IN  { [ClientContactId |-> k.ClientContactId,
           ClientFullName |-> k.ClientFullName,
           ClientOfficeLocationName |-> k.ClientOfficeLocationName,
           DirectProviderId |-> k.DirectProviderId,
           SupervisorProviderId |-> k.SupervisorProviderId,
           DirectServiceLocationName |-> k.DirectServiceLocationName,
           SupervisorServiceLocationName |-> k.SupervisorServiceLocationName,
           OverlapHours |->
               CastDecimal2(SumFn(hours, {r \in rows : OverlapKey(r) = k}))] :
          k \in {OverlapKey(r) : r \in rows} }

\* SELECT DISTINCT ... FROM direct: the interval without its row identity.
DistinctInterval(d) ==
    [ClientContactId |-> d.ClientContactId,
     ClientFullName |-> d.ClientFullName,
     ClientOfficeLocationName |-> d.ClientOfficeLocationName,
     ProviderContactId |-> d.ProviderContactId,
     ServiceStartTime |-> d.ServiceStartTime,
     ServiceEndTime |-> d.ServiceEndTime,
     ServiceLocationName |-> d.ServiceLocationName]

\* The GROUP BY columns of direct_totals and of supervision_totals.
TotalsKey(d) ==
    [ClientContactId |-> d.ClientContactId,
     ClientFullName |-> d.ClientFullName,
     ClientOfficeLocationName |-> d.ClientOfficeLocationName,
     ProviderContactId |-> d.ProviderContactId,
     ServiceLocationName |-> d.ServiceLocationName]

direct_totals(direct_) ==
    LET joined == {j \in {DistinctInterval(d) : d \in direct_}
                          \X (contacts \cup {NullContact})
                          \X (employee \cup {NullEmployee}) :
                      /\ j[2] \in LeftJoinContacts(j[1].ProviderContactId)
                      /\ j[3] \in LeftJoinEmployee(j[2])
                      /\ NotBCBA(j[3])}
        minutes == [j \in joined |->
                       DATEDIFF_MINUTE(j[1].ServiceStartTime, j[1].ServiceEndTime)]
    IN  { [ClientContactId |-> k.ClientContactId,
           ClientFullName |-> k.ClientFullName,
           ClientOfficeLocationName |-> k.ClientOfficeLocationName,
           DirectProviderId |-> k.ProviderContactId,
           DirectServiceLocationName |-> k.ServiceLocationName,
           DirectHours_Total |->
               DivideBy60(SumFn(minutes, {j \in joined : TotalsKey(j[1]) = k}))] :
          k \in {TotalsKey(j[1]) : j \in joined} }

\* An attribution capped at one supervisor: the largest overlap of the key.
largest_overlap_by_direct(overlap_) ==
    { [ClientContactId |-> k[1],
       DirectProviderId |-> k[2],
       DirectServiceLocationName |-> k[3],
       OverlapHours_Total |->
           CHOOSE h \in {o.OverlapHours : o \in overlap_} :
               \E o \in overlap_ :
                   /\ o.OverlapHours = h
                   /\ <<o.ClientContactId, o.DirectProviderId,
                        o.DirectServiceLocationName>> = k
                   /\ \A q \in overlap_ :
                          <<q.ClientContactId, q.DirectProviderId,
                            q.DirectServiceLocationName>> = k
                          => q.OverlapHours <= h] :
      k \in {<<o.ClientContactId, o.DirectProviderId,
               o.DirectServiceLocationName>> : o \in overlap_} }

overlap_by_direct(overlap_) ==
    LET hours == [o \in overlap_ |-> o.OverlapHours]
    IN  { [ClientContactId |-> k[1],
           DirectProviderId |-> k[2],
           DirectServiceLocationName |-> k[3],
           OverlapHours_Total |->
               SumFn(hours, {o \in overlap_ :
                                /\ o.ClientContactId = k[1]
                                /\ o.DirectProviderId = k[2]
                                /\ o.DirectServiceLocationName = k[3]})] :
          k \in {<<o.ClientContactId, o.DirectProviderId,
                   o.DirectServiceLocationName>> : o \in overlap_} }

\* A residual that subtracts nothing.
NoOverlapOfDirect(dt, overlap_by_direct_) == 0

\* COALESCE(od.OverlapHours_Total, 0.0) after the LEFT JOIN of direct_only.
OverlapOfDirect(dt, overlap_by_direct_) ==
    LET m == {od \in overlap_by_direct_ :
                 /\ od.ClientContactId = dt.ClientContactId
                 /\ od.DirectProviderId = dt.DirectProviderId
                 /\ od.DirectServiceLocationName = dt.DirectServiceLocationName}
    IN  IF m = {} THEN 0 ELSE (CHOOSE od \in m : TRUE).OverlapHours_Total

direct_only(direct_totals_, overlap_by_direct_) ==
    { [ClientContactId |-> dt.ClientContactId,
       ClientFullName |-> dt.ClientFullName,
       ClientOfficeLocationName |-> dt.ClientOfficeLocationName,
       DirectProviderId |-> dt.DirectProviderId,
       DirectServiceLocationName |-> dt.DirectServiceLocationName,
       DirectHours_NoSupervision |->
           CastDecimal2(dt.DirectHours_Total
                        - Widen(OverlapOfDirect(dt, overlap_by_direct_)))] :
      dt \in direct_totals_ }

supervision_totals(supervision_) ==
    LET minutes == [s \in supervision_ |->
                       DATEDIFF_MINUTE(s.ServiceStartTime, s.ServiceEndTime)]
    IN  { [ClientContactId |-> k.ClientContactId,
           ClientFullName |-> k.ClientFullName,
           ClientOfficeLocationName |-> k.ClientOfficeLocationName,
           SupervisorProviderId |-> k.ProviderContactId,
           SupervisorServiceLocationName |-> k.ServiceLocationName,
           SupervisionHours_Total |->
               DivideBy60(SumFn(minutes, {s \in supervision_ : TotalsKey(s) = k}))] :
          k \in {TotalsKey(s) : s \in supervision_} }

overlap_by_supervision(overlap_) ==
    LET hours == [o \in overlap_ |-> o.OverlapHours]
    IN  { [ClientContactId |-> k[1],
           SupervisorProviderId |-> k[2],
           SupervisorServiceLocationName |-> k[3],
           OverlapHours_Total |->
               SumFn(hours, {o \in overlap_ :
                                /\ o.ClientContactId = k[1]
                                /\ o.SupervisorProviderId = k[2]
                                /\ o.SupervisorServiceLocationName = k[3]})] :
          k \in {<<o.ClientContactId, o.SupervisorProviderId,
                   o.SupervisorServiceLocationName>> : o \in overlap_} }

\* COALESCE(os.OverlapHours_Total, 0.0) after the LEFT JOIN of supervision_only.
OverlapOfSupervision(st, overlap_by_supervision_) ==
    LET m == {os \in overlap_by_supervision_ :
                 /\ os.ClientContactId = st.ClientContactId
                 /\ os.SupervisorProviderId = st.SupervisorProviderId
                 /\ os.SupervisorServiceLocationName = st.SupervisorServiceLocationName}
    IN  IF m = {} THEN 0 ELSE (CHOOSE os \in m : TRUE).OverlapHours_Total

\* The residual of every key, with no WHERE over it.
supervision_residuals(supervision_totals_, overlap_by_supervision_) ==
    { [ClientContactId |-> st.ClientContactId,
       ClientFullName |-> st.ClientFullName,
       ClientOfficeLocationName |-> st.ClientOfficeLocationName,
       SupervisorProviderId |-> st.SupervisorProviderId,
       SupervisorServiceLocationName |-> st.SupervisorServiceLocationName,
       SupervisionHours_NoDirect |->
           CastDecimal2(st.SupervisionHours_Total
                        - Widen(OverlapOfSupervision(st, overlap_by_supervision_)))] :
      st \in supervision_totals_ }

supervision_only(supervision_totals_, overlap_by_supervision_) ==
    { [ClientContactId |-> st.ClientContactId,
       ClientFullName |-> st.ClientFullName,
       ClientOfficeLocationName |-> st.ClientOfficeLocationName,
       SupervisorProviderId |-> st.SupervisorProviderId,
       SupervisorServiceLocationName |-> st.SupervisorServiceLocationName,
       SupervisionHours_NoDirect |->
           CastDecimal2(st.SupervisionHours_Total
                        - Widen(OverlapOfSupervision(st, overlap_by_supervision_)))] :
      st \in {t \in supervision_totals_ :
                 t.SupervisionHours_Total
                     - Widen(OverlapOfSupervision(t, overlap_by_supervision_)) > 0} }

DIRECT_ONLY == "Direct (no supervision overlap)"

OVERLAPPED == "Direct overlapped with supervision"

SUPERVISION_ONLY == "Supervision without direct overlap"

\* named_direct_only, named_overlap and named_supervision_only share the column
\* layout of the final SELECT. ContactRow is the identity of the joined
\* supervisor Contacts row where the SELECT is not DISTINCT, 0 where it is.
named_direct_only(direct_only_) ==
    { [ClientContactId |-> x[1].ClientContactId,
       ClientFullName |-> x[1].ClientFullName,
       ClientOfficeLocationName |-> x[1].ClientOfficeLocationName,
       DirectProviderId |-> x[1].DirectProviderId,
       DirectFirstName |-> x[2].FirstName,
       DirectLastName |-> x[2].LastName,
       DirectServiceLocationName |-> x[1].DirectServiceLocationName,
       DirectHours |-> x[1].DirectHours_NoSupervision,
       SupervisionHours |-> 0,
       SupervisorFirstName |-> NullStr,
       SupervisorLastName |-> NullStr,
       SupervisorServiceLocationName |-> NullStr,
       RowType |-> DIRECT_ONLY,
       ContactRow |-> 0] :
      x \in {y \in direct_only_ \X (contacts \cup {NullContact}) :
                y[2] \in DirectContacts(y[1].DirectProviderId)} }

named_overlap(overlap_) ==
    { [ClientContactId |-> x[1].ClientContactId,
       ClientFullName |-> x[1].ClientFullName,
       ClientOfficeLocationName |-> x[1].ClientOfficeLocationName,
       DirectProviderId |-> x[1].DirectProviderId,
       DirectFirstName |-> x[2].FirstName,
       DirectLastName |-> x[2].LastName,
       DirectServiceLocationName |-> x[1].DirectServiceLocationName,
       DirectHours |-> x[1].OverlapHours,
       SupervisionHours |-> x[1].OverlapHours,
       SupervisorFirstName |-> x[3].FirstName,
       SupervisorLastName |-> x[3].LastName,
       SupervisorServiceLocationName |-> x[1].SupervisorServiceLocationName,
       RowType |-> OVERLAPPED,
       ContactRow |-> 0] :
      x \in {y \in overlap_ \X (contacts \cup {NullContact}) \X (contacts \cup {NullContact}) :
                /\ y[2] \in DirectContacts(y[1].DirectProviderId)
                /\ y[3] \in LeftJoinContacts(y[1].SupervisorProviderId)} }

\* The supervision residual labelled as a direct row of the supervisor.
named_supervision_as_direct(supervision_only_) ==
    { [ClientContactId |-> so.ClientContactId,
       ClientFullName |-> so.ClientFullName,
       ClientOfficeLocationName |-> so.ClientOfficeLocationName,
       DirectProviderId |-> so.SupervisorProviderId,
       DirectFirstName |-> NullStr,
       DirectLastName |-> NullStr,
       DirectServiceLocationName |-> so.SupervisorServiceLocationName,
       DirectHours |-> 0,
       SupervisionHours |-> so.SupervisionHours_NoDirect,
       SupervisorFirstName |-> NullStr,
       SupervisorLastName |-> NullStr,
       SupervisorServiceLocationName |-> NullStr,
       RowType |-> DIRECT_ONLY,
       ContactRow |-> 0] :
      so \in supervision_only_ }

named_supervision_only(supervision_only_) ==
    { [ClientContactId |-> x[1].ClientContactId,
       ClientFullName |-> x[1].ClientFullName,
       ClientOfficeLocationName |-> x[1].ClientOfficeLocationName,
       DirectProviderId |-> 0,
       DirectFirstName |-> NullStr,
       DirectLastName |-> NullStr,
       DirectServiceLocationName |-> NullStr,
       DirectHours |-> 0,
       SupervisionHours |-> x[1].SupervisionHours_NoDirect,
       SupervisorFirstName |-> x[2].FirstName,
       SupervisorLastName |-> x[2].LastName,
       SupervisorServiceLocationName |-> x[1].SupervisorServiceLocationName,
       RowType |-> SUPERVISION_ONLY,
       ContactRow |-> x[2].RowId] :
      x \in {y \in supervision_only_ \X (contacts \cup {NullContact}) :
                y[2] \in LeftJoinContacts(y[1].SupervisorProviderId)} }

\* The UNION ALL with no WHERE over it.
AllNamedRows(named_direct_only_, named_overlap_, named_supervision_only_) ==
    named_direct_only_ \cup named_overlap_ \cup named_supervision_only_

\* The rows of the final SELECT: the UNION ALL under its WHERE.
FinalRows(named_direct_only_, named_overlap_, named_supervision_only_) ==
    {x \in named_direct_only_ \cup named_overlap_ \cup named_supervision_only_ :
        x.DirectHours > 0 \/ x.SupervisionHours > 0}

\* The ORDER BY columns of the final SELECT, in order, as collation keys.
OrderByKey(x) ==
    << CollationKey(x.ClientFullName),
       CollationKey(x.DirectLastName), CollationKey(x.DirectFirstName),
       CollationKey(x.SupervisorLastName), CollationKey(x.SupervisorFirstName),
       CollationKey(x.DirectServiceLocationName),
       CollationKey(x.SupervisorServiceLocationName) >>

\* Key kx sorts strictly before key ky under the ORDER BY.
OrderByLess(kx, ky) ==
    LET differ == {i \in 1..7 : kx[i] # ky[i]}
    IN  differ # {} /\ SqlKeyLess(kx[Least(differ)], ky[Least(differ)])

\* A row of the DataFrame pd.read_sql builds: the selected columns.
FrameRow(x) ==
    [ClientContactId |-> x.ClientContactId,
     ClientFullName |-> x.ClientFullName,
     ClientOfficeLocationName |-> x.ClientOfficeLocationName,
     DirectProviderId |-> x.DirectProviderId,
     DirectFirstName |-> x.DirectFirstName,
     DirectLastName |-> x.DirectLastName,
     DirectServiceLocationName |-> x.DirectServiceLocationName,
     DirectHours |-> x.DirectHours,
     SupervisionHours |-> x.SupervisionHours,
     SupervisorFirstName |-> x.SupervisorFirstName,
     SupervisorLastName |-> x.SupervisorLastName,
     SupervisorServiceLocationName |-> x.SupervisorServiceLocationName,
     RowType |-> x.RowType]

MaxReordered == 1

\* The frames the final SELECT can return for its rows: the rows in ORDER BY
\* order, rows that tie in an order of the server's choosing. place[x] is the
\* number of rows that sort before x, so rows tie when their places are equal;
\* late is a set of tied rows the server emits after their peers.
QueryResults(rows) ==
    LET listed == SetToSeq(rows)
        key == [x \in rows |-> OrderByKey(x)]
        place == [x \in rows |-> Cardinality({y \in rows : OrderByLess(key[y], key[x])})]
        heads == {listed[i] : i \in {j \in 1..Len(listed) :
                     /\ \E k \in (j + 1)..Len(listed) : place[listed[k]] = place[listed[j]]
                     /\ \A k \in 1..(j - 1) : place[listed[k]] # place[listed[j]]}}
        Sorted(late) ==
            LET Less(x, y) == \/ place[x] < place[y]
                              \/ /\ place[x] = place[y]
                                 /\ x \notin late /\ y \in late
            IN  StableSort(listed, [i \in 1..Len(listed) |-> [j \in 1..Len(listed) |->
                                       Less(listed[i], listed[j])]])
    IN  { [i \in 1..Len(listed) |-> FrameRow(Sorted(late)[i])] :
            late \in SubsetsUpTo(heads, MaxReordered) }

\* The common table expressions of SUPERVISION_HOURS_SQL_TEMPLATE over the
\* tables, each computed from the ones it selects from.
SupervisionHoursQuery(entries) ==
    LET base_ == base(entries)
        direct_ == direct(base_)
        supervision_ == supervision(base_)
        overlap_raw_ == overlap_raw(direct_, supervision_)
        overlap_ == overlap(overlap_raw_)
        direct_totals_ == direct_totals(direct_)
        overlap_by_direct_ == overlap_by_direct(overlap_)
        direct_only_ == direct_only(direct_totals_, overlap_by_direct_)
        supervision_totals_ == supervision_totals(supervision_)
        overlap_by_supervision_ == overlap_by_supervision(overlap_)
        supervision_only_ == supervision_only(supervision_totals_, overlap_by_supervision_)
        named_direct_only_ == named_direct_only(direct_only_)
        named_overlap_ == named_overlap(overlap_)
        named_supervision_only_ == named_supervision_only(supervision_only_)
    IN  [base |-> base_,
         direct |-> direct_,
         supervision |-> supervision_,
         overlap_raw |-> overlap_raw_,
         overlap |-> overlap_,
         direct_totals |-> direct_totals_,
         overlap_by_direct |-> overlap_by_direct_,
         direct_only |-> direct_only_,
         supervision_totals |-> supervision_totals_,
         overlap_by_supervision |-> overlap_by_supervision_,
         supervision_only |-> supervision_only_,
         result |-> FinalRows(named_direct_only_, named_overlap_, named_supervision_only_)]

----------------------------------------------------------------------------
(* BACB_SUPERVISION_TEMPLATE                                               *)

\* The service codes of the ServiceCode table that match
\* LIKE '%BACB%Supervision%Meeting%client%' or
\* LIKE '%VA%Medicaid%Supervision%client%'.
BACB_SERVICE_CODES ==
    {"BACB Supervision Meeting (w/out client)", "VA Medicaid Supervision (w/o Client)"}

\* The rows of the BACB query: one per provider, ORDER BY ProviderContactId.
BacbSupervisionQuery(entries) ==
    LET rows == {b \in entries :
                    /\ b.ServiceEndTime >= start_date
                    /\ b.ServiceEndTime < end_date
                    /\ b.ProviderContactId # 0
                    /\ b.ServiceCode \in BACB_SERVICE_CODES}
        ids == {b.ProviderContactId : b \in rows}
        minutes == [b \in rows |-> DATEDIFF_MINUTE(b.ServiceStartTime, b.ServiceEndTime)]
        nth == [i \in 1..Cardinality(ids) |->
                   CHOOSE id \in ids : Cardinality({x \in ids : x < id}) = i - 1]
    IN  [i \in 1..Cardinality(ids) |->
            [ProviderContactId |-> nth[i],
             BACBSupervisionCodes_binary |-> 1,
             BACBSupervisionHours |->
                 CastDecimal2(DivideBy60(SumFn(minutes,
                     {b \in rows : b.ProviderContactId = nth[i]})))]]

----------------------------------------------------------------------------
(* transform_data.clean_clinic_name                                        *)

Str_ORGANIZATION == <<"o","r","g","a","n","i","z","a","t","i","o","n">>

Str_8528_Unive == <<" ","8","5","2","8"," ","U","n","i","v","e">>

Str_1612_Hi == <<" ","1","6","1","2"," ","H","i">>

Str_Clinic == <<" ","C","l","i","n","i","c">>

Str_Clin == <<" ","C","l","i","n">>

Str_diagnostics == <<"d","i","a","g","n","o","s","t","i","c","s">>

Str_nan == <<"n","a","n">>

\* The characters \s and str.strip() take for whitespace, of those in Ascii.
Whitespace == {" "}

\* s from its n-th character on.
From(s, n) == SubSeq(s, n, Len(s))

\* sub occurs in s at position i.
OccursAt(s, sub, i) ==
    i + Len(sub) - 1 <= Len(s) /\ SubSeq(s, i, i + Len(sub) - 1) = sub

\* str.lstrip()
lstrip(s) ==
    LET kept == {i \in 1..Len(s) : s[i] \notin Whitespace}
    IN  IF kept = {} THEN <<>> ELSE From(s, Least(kept))

\* str.rstrip()
rstrip(s) == Reverse(lstrip(Reverse(s)))

\* str.strip()
strip(s) == rstrip(lstrip(s))

\* str.replace(r'^ORGANIZATION[:_]\s*', '', regex=True, case=False)
RemoveOrganizationPrefix(s) ==
    IF /\ Len(s) >= 13
       /\ Lower(SubSeq(s, 1, 12)) = Str_ORGANIZATION
       /\ s[13] \in {":", "_"}
    THEN lstrip(From(s, 14))
    ELSE s

RECURSIVE Remove(_, _)
\* str.replace(sub, ""): every occurrence of sub, found left to right.
Remove(s, sub) ==
    IF Len(s) < Len(sub) THEN s
    ELSE IF OccursAt(s, sub, 1) THEN Remove(From(s, Len(sub) + 1), sub)
    ELSE <<s[1]>> \o Remove(Tail(s), sub)

\* str.contains(sub, case=False)
ContainsIgnoreCase(s, sub) ==
    \E i \in 1..Len(s) : OccursAt(Lower(s), Lower(sub), i)

clean_clinic_name(name) ==
    IF IsNull(name) \/ name = <<>> THEN name
    ELSE rstrip(Remove(Remove(Remove(Remove(
             strip(RemoveOrganizationPrefix(name)),
             Str_8528_Unive), Str_1612_Hi), Str_Clinic), Str_Clin))

----------------------------------------------------------------------------
(* transform_data.transform_data                                           *)
(* A DataFrame is the sequence of its rows; hours are centi-hours, so the  *)
(* float sums of pandas are exact here.                                    *)

\* Series.first() of a group: the first value that is not NaN.
FirstValid(values) ==
    LET valid == {i \in 1..Len(values) : ~IsNull(values[i])}
    IN  IF valid = {} THEN NullStr ELSE values[Least(valid)]

\* The three RowType values in str order.
RowTypeRank(t) ==
    CASE t = DIRECT_ONLY -> 1
      [] t = OVERLAPPED -> 2
      [] t = SUPERVISION_ONLY -> 3

key_cols(r) ==
    << r.ClientContactId, r.DirectProviderId, r.ClientOfficeLocationName,
       r.DirectHours, r.SupervisionHours, RowTypeRank(r.RowType),
       r.DirectServiceLocationName >>

\* The sort order of groupby over tuples of numbers and strings (the columns
\* at the places in strs are strings): NaN keys after all others.
KeyLess(a, b, strs) ==
    LET differ == {i \in 1..Len(a) : a[i] # b[i]}
    IN  /\ differ # {}
        /\ LET i == Least(differ)
           IN  IF i \in strs THEN NaLastStrLess(a[i], b[i]) ELSE a[i] < b[i]

\* The group keys, in groupby's sorted order.
SortedKeys(keys, strs) ==
    LET listed == SetToSeq(keys)
    IN  StableSort(listed, [i \in 1..Len(listed) |-> [j \in 1..Len(listed) |->
                               KeyLess(listed[i], listed[j], strs)]])

\* direct_rows.groupby(key_cols, dropna=False).first().reset_index()
direct_deduped(direct_rows) ==
    LET keys == SortedKeys({key_cols(r) : r \in Range(direct_rows)}, {3, 7})
    IN  [i \in 1..Len(keys) |->
            LET g == Select(direct_rows, [j \in 1..Len(direct_rows) |->
                                             key_cols(direct_rows[j]) = keys[i]])
            IN  [ClientContactId |-> g[1].ClientContactId,
                 ClientFullName |-> FirstValid(Column(g, "ClientFullName")),
                 ClientOfficeLocationName |-> g[1].ClientOfficeLocationName,
                 DirectProviderId |-> g[1].DirectProviderId,
                 DirectFirstName |-> FirstValid(Column(g, "DirectFirstName")),
                 DirectLastName |-> FirstValid(Column(g, "DirectLastName")),
                 DirectServiceLocationName |-> g[1].DirectServiceLocationName,
                 DirectHours |-> g[1].DirectHours,
                 SupervisionHours |-> g[1].SupervisionHours,
                 SupervisorFirstName |-> FirstValid(Column(g, "SupervisorFirstName")),
                 SupervisorLastName |-> FirstValid(Column(g, "SupervisorLastName")),
                 SupervisorServiceLocationName |->
                     FirstValid(Column(g, "SupervisorServiceLocationName")),
                 RowType |-> g[1].RowType]]

HasDirectProviderId(r) == r.DirectProviderId # 0

LacksDirectProviderId(r) == r.DirectProviderId = 0

\* Lines 107-130: the second de-duplication, direct rows first.
Deduplicated(df) ==
    LET direct_rows == Select(df, [i \in 1..Len(df) |-> HasDirectProviderId(df[i])])
        other_rows == Select(df, [i \in 1..Len(df) |-> LacksDirectProviderId(df[i])])
    IN  IF Len(direct_rows) > 0 THEN direct_deduped(direct_rows) \o other_rows ELSE df

\* The (first, last) pairs of the Supervisor columns.
supervisors(df) ==
    { <<r.SupervisorFirstName, r.SupervisorLastName>> :
        r \in {x \in Range(df) : /\ ~IsNull(x.SupervisorFirstName)
                                 /\ ~IsNull(x.SupervisorLastName)} }

\* The rows the supervisor filter removes.
MatchesSupervisor(r, supervisors_) ==
    /\ ~IsNull(r.DirectFirstName)
    /\ ~IsNull(r.DirectLastName)
    /\ <<r.DirectFirstName, r.DirectLastName>> \in supervisors_

WithoutSupervisors(df) ==
    LET supervisors_ == supervisors(df)
    IN  Select(df, [i \in 1..Len(df) |-> ~MatchesSupervisor(df[i], supervisors_)])

\* f"{row['DirectFirstName']} {row['DirectLastName']}"
FullName(r) == r.DirectFirstName \o <<" ">> \o r.DirectLastName

HasDirectName(r) == ~IsNull(r.DirectFirstName) /\ ~IsNull(r.DirectLastName)

\* direct_dict after the loop over df.iterrows(): each assignment replaces the
\* entry of its key, so a key holds the name of its last row. An id without
\* entry maps to NaN, as Series.map(direct_dict) yields.
direct_dict(df) ==
    [id \in {r.DirectProviderId : r \in Range(df)} |->
        LET rows == {i \in 1..Len(df) : df[i].DirectProviderId = id /\ HasDirectName(df[i])}
        IN  IF rows = {} THEN NullStr
            ELSE FullName(df[CHOOSE i \in rows : \A j \in rows : j <= i])]

\* The group key of the first de-duplication pass over the overlap rows.
OverlapGroupKey(r) ==
    << r.DirectProviderId, r.ClientOfficeLocationName, r.ClientContactId,
       r.DirectServiceLocationName >>

\* The group key ['DirectProviderId', 'ClientOfficeLocationName'].
ProviderOfficeKey(r) == << r.DirectProviderId, r.ClientOfficeLocationName >>

\* groupby drops the rows with a NaN in a key column (dropna=True).
NoNaN(r) ==
    /\ r.DirectProviderId # 0
    /\ ~IsNull(r.ClientOfficeLocationName)
    /\ r.ClientContactId # 0
    /\ ~IsNull(r.DirectServiceLocationName)

NoNaNProviderOffice(r) == r.DirectProviderId # 0 /\ ~IsNull(r.ClientOfficeLocationName)

Max(S) == CHOOSE x \in S : \A y \in S : y <= x

\* overlap_df.groupby([...four columns...]).agg(max, sum).reset_index()
overlap_deduped(overlap_df) ==
    LET rows == Select(overlap_df, [i \in 1..Len(overlap_df) |-> NoNaN(overlap_df[i])])
        keys == SortedKeys({OverlapGroupKey(r) : r \in Range(rows)}, {2, 4})
    IN  [i \in 1..Len(keys) |->
            LET g == Select(rows, [j \in 1..Len(rows) |->
                                      OverlapGroupKey(rows[j]) = keys[i]])
            IN  [DirectProviderId |-> keys[i][1],
                 ClientOfficeLocationName |-> keys[i][2],
                 ClientContactId |-> keys[i][3],
                 DirectServiceLocationName |-> keys[i][4],
                 DirectHours |-> Max({g[j].DirectHours : j \in 1..Len(g)}),
                 SupervisionHours |-> SumSeq(Column(g, "SupervisionHours"))]]

\* A grouping that keeps every row and gives it the sums of its group, as
\* groupby(...).transform('sum') does.
GroupTransformProviderOffice(frame) ==
    LET rows == Select(frame, [i \in 1..Len(frame) |-> NoNaNProviderOffice(frame[i])])
    IN  [i \in 1..Len(rows) |->
            LET g == Select(rows, [j \in 1..Len(rows) |->
                                      ProviderOfficeKey(rows[j]) = ProviderOfficeKey(rows[i])])
            IN  [DirectProviderId |-> rows[i].DirectProviderId,
                 ClientOfficeLocationName |-> rows[i].ClientOfficeLocationName,
                 DirectHours |-> SumSeq(Column(g, "DirectHours")),
                 SupervisionHours |-> SumSeq(Column(g, "SupervisionHours")),
                 DirectServiceLocationName |->
                     FirstValid(Column(g, "DirectServiceLocationName"))]]

\* frame.groupby(['DirectProviderId', 'ClientOfficeLocationName']).agg(
\*     {'DirectHours': 'sum', 'SupervisionHours': 'sum',
\*      'DirectServiceLocationName': 'first'}).reset_index()
GroupByProviderOffice(frame) ==
    LET rows == Select(frame, [i \in 1..Len(frame) |-> NoNaNProviderOffice(frame[i])])
        keys == SortedKeys({ProviderOfficeKey(r) : r \in Range(rows)}, {2})
    IN  [i \in 1..Len(keys) |->
            LET g == Select(rows, [j \in 1..Len(rows) |->
                                      ProviderOfficeKey(rows[j]) = keys[i]])
            IN  [DirectProviderId |-> keys[i][1],
                 ClientOfficeLocationName |-> keys[i][2],
                 DirectHours |-> SumSeq(Column(g, "DirectHours")),
                 SupervisionHours |-> SumSeq(Column(g, "SupervisionHours")),
                 DirectServiceLocationName |->
                     FirstValid(Column(g, "DirectServiceLocationName"))]]

\* overlap_mask and direct_only_mask.
overlap_mask(df) == [i \in 1..Len(df) |-> df[i].RowType = OVERLAPPED]

direct_only_mask(df) == [i \in 1..Len(df) |-> df[i].RowType = DIRECT_ONLY]

overlap_final(df) == GroupByProviderOffice(overlap_deduped(Select(df, overlap_mask(df))))

direct_only_grouped(df) == GroupByProviderOffice(Select(df, direct_only_mask(df)))

\* A combination that leaves the direct-only rows out.
overlap_rows_only(df) == overlap_final(df)

\* Lines 224-232: the frames with a DirectProviderId, overlap rows first.
combined(df) ==
    LET overlap_any == \E i \in 1..Len(df) : overlap_mask(df)[i]
        direct_only_any == \E i \in 1..Len(df) : direct_only_mask(df)[i]
    IN  IF overlap_any /\ direct_only_any
        THEN overlap_final(df) \o direct_only_grouped(df)
        ELSE IF overlap_any THEN overlap_final(df)
        ELSE IF direct_only_any THEN direct_only_grouped(df)
        ELSE <<>>

\* The label without the replacement of 'Diagnostics': the cleaned office.
CleanedOffice(row) == clean_clinic_name(row.ClientOfficeLocationName)

\* Lines 257-284 for one aggregated row: the label of its Clinic column.
Clinic(row) ==
    LET cleaned == clean_clinic_name(row.ClientOfficeLocationName)
        location == IF IsNull(row.DirectServiceLocationName) THEN NullStr
                    ELSE LET l == clean_clinic_name(row.DirectServiceLocationName)
                         IN  IF l = <<>> \/ l = Str_nan THEN NullStr ELSE l
    IN  IF /\ ~IsNull(cleaned)
           /\ ContainsIgnoreCase(cleaned, Str_diagnostics)
           /\ ~IsNull(location)
           /\ strip(location) # <<>>
        THEN location
        ELSE cleaned

\* A comparison that orders nothing: the rows stay as the aggregation left
\* them.
NeverLess(x, y) == FALSE

\* The columns of the frame transform_data returns, in order.
report_columns ==
    <<"Clinic", "DirectProviderId", "DirectProviderName", "DirectHours", "SupervisionHours">>

\* sort_values(by=['Clinic', 'DirectProviderName']): NaN last.
ReportLess(x, y) ==
    KeyLess(<<x.Clinic, x.DirectProviderName>>, <<y.Clinic, y.DirectProviderName>>, {1, 2})

\* The rows transform_data aggregates: the batch without duplicate rows,
\* de-duplicated and without the supervisors' rows.
filtered_df(df) == WithoutSupervisors(Deduplicated(Unique(df)))

\* Lines 234-245: the final aggregation of the combined rows.
final_aggregation(df) == GroupByProviderOffice(combined(filtered_df(df)))

transform_data(df) ==
    LET filtered == filtered_df(df)
        names == direct_dict(filtered)
        grouped == final_aggregation(df)
        report == [i \in 1..Len(grouped) |->
                      [Clinic |-> Clinic(grouped[i]),
                       DirectProviderId |-> grouped[i].DirectProviderId,
                       DirectProviderName |-> names[grouped[i].DirectProviderId],
                       DirectHours |-> grouped[i].DirectHours,
                       SupervisionHours |-> grouped[i].SupervisionHours]]
    IN  StableSort(report, [i \in 1..Len(report) |-> [j \in 1..Len(report) |->
                               ReportLess(report[i], report[j])]])

----------------------------------------------------------------------------
(* merge_data.merge_data                                                   *)
(*                                                                         *)
(* A value of the TotalSupervisionPercent column is pd.NA or the rational  *)
(* number num / den, in percent.                                           *)

NA == [kind |-> "NA", num |-> 0, den |-> 1]

Number(n, d) == [kind |-> "number", num |-> n, den |-> d]

\* n / d rounded to the nearest integer, halves to the even one (numpy.round).
RoundHalfEven(n, d) ==
    LET q == n \div d
        r == n % d
    IN  IF 2 * r < d THEN q
        ELSE IF 2 * r > d THEN q + 1
        ELSE IF q % 2 = 0 THEN q ELSE q + 1

\* The merge with how='inner': a left row without a matching right row is
\* left out.
InnerMerge(left, right) ==
    LET Matches(i) == Select(right, [j \in 1..Len(right) |->
                                 right[j].ProviderContactId = left[i].DirectProviderId])
        Joined(i) ==
            [j \in 1..Len(Matches(i)) |->
                [left |-> left[i], matched |-> TRUE,
                 BACBSupervisionCodes_binary |-> Matches(i)[j].BACBSupervisionCodes_binary,
                 BACBSupervisionHours |-> Matches(i)[j].BACBSupervisionHours]]
        Flat[n \in 0..Len(left)] == IF n = 0 THEN <<>> ELSE Flat[n - 1] \o Joined(n)
    IN  Flat[Len(left)]

\* transformed_df.merge(bacb_df, left_on='DirectProviderId',
\* right_on='ProviderContactId', how='left'): the left rows in order, each
\* once per matching right row, once with NaN when none matches.
LeftMerge(left, right) ==
    LET Matches(i) == Select(right, [j \in 1..Len(right) |->
                                 right[j].ProviderContactId = left[i].DirectProviderId])
        Joined(i) ==
            IF Matches(i) = <<>>
            THEN << [left |-> left[i], matched |-> FALSE,
                     BACBSupervisionCodes_binary |-> 0, BACBSupervisionHours |-> 0] >>
            ELSE [j \in 1..Len(Matches(i)) |->
                     [left |-> left[i], matched |-> TRUE,
                      BACBSupervisionCodes_binary |-> Matches(i)[j].BACBSupervisionCodes_binary,
                      BACBSupervisionHours |-> Matches(i)[j].BACBSupervisionHours]]
        Flat[n \in 0..Len(left)] == IF n = 0 THEN <<>> ELSE Flat[n - 1] \o Joined(n)
    IN  Flat[Len(left)]

\* merged_df['SupervisionHours'].fillna(0) + merged_df['BACBSupervisionHours'].fillna(0)
TotalSupervisionHours(m) ==
    m.left.SupervisionHours + (IF m.matched THEN m.BACBSupervisionHours ELSE 0)

\* The merged row with its BACB columns filled (fillna(0), fillna(0.0)),
\* BACBSupervisionCodesOccurred mapped to Yes / No, TotalSupervisionHours added
\* and the given TotalSupervisionPercent.
MergedRow(m, percent) ==
    [Clinic |-> m.left.Clinic,
     DirectProviderId |-> m.left.DirectProviderId,
     DirectProviderName |-> m.left.DirectProviderName,
     DirectHours |-> m.left.DirectHours,
     SupervisionHours |-> m.left.SupervisionHours,
     BACBSupervisionCodesOccurred |->
         IF m.matched /\ m.BACBSupervisionCodes_binary = 1 THEN "Yes" ELSE "No",
     BACBSupervisionHours |-> IF m.matched THEN m.BACBSupervisionHours ELSE 0,
     TotalSupervisionHours |-> TotalSupervisionHours(m),
     TotalSupervisionPercent |-> percent]

\* round(100 * (TotalSupervisionHours / DirectHours.replace(0, pd.NA)), 2) of a
\* float64 DirectHours column that holds no 0: replace changes nothing, the
\* quotient is float64 and round rounds it to two decimals.
TotalSupervisionPercent(m) ==
    IF m.left.DirectHours = 0 THEN NA
    ELSE Number(RoundHalfEven(10000 * TotalSupervisionHours(m), m.left.DirectHours), 100)

\* The quotient where the DirectHours column holds a 0: replace(0, pd.NA)
\* turns the column into an object column, the quotient is an object column,
\* pd.NA where DirectHours was 0, and is not rounded.
TotalSupervisionPercentAsObject(m) ==
    IF m.left.DirectHours = 0 THEN NA
    ELSE Number(100 * TotalSupervisionHours(m), m.left.DirectHours)

\* What merge_data can do: return a frame, or raise. round() of an object
\* column raises TypeError in the pandas releases whose Series.round rounds
\* the object array, and returns the column as it is in the releases that
\* skip non-numeric blocks.
merge_data(transformed, bacb) ==
    LET merged == LeftMerge(transformed, bacb)
        rows == 1..Len(merged)
    IN  IF \E i \in rows : merged[i].left.DirectHours = 0
        THEN { [raised |-> "TypeError", frame |-> <<>>],
               [raised |-> "",
                frame |-> [i \in rows |->
                              MergedRow(merged[i], TotalSupervisionPercentAsObject(merged[i]))]] }
        ELSE { [raised |-> "",
                frame |-> [i \in rows |->
                              MergedRow(merged[i], TotalSupervisionPercent(merged[i]))]] }

----------------------------------------------------------------------------
(* pull_data.get_db_connection                                             *)

\* <<driver, extra_params>>, in the order they are tried.
drivers_to_try ==
    << <<"ODBC Driver 17 for SQL Server", "">>,
       <<"ODBC Driver 18 for SQL Server", "TrustServerCertificate=yes">>,
       <<"SQL Server", "">>,
       <<"ODBC Driver 18 for SQL Server", "TrustServerCertificate=yes;Encrypt=no">> >>

\* What pyodbc.connect can do with a configuration: connect, or raise because
\* the driver is not installed (InterfaceError) or because the server refuses
\* or does not answer (OperationalError).
ConnectOutcomes == {"connected", "InterfaceError", "OperationalError"}

EveryDriverConnects == [i \in 1..Len(drivers_to_try) |-> "connected"]

NoConnection == [driver |-> 0, state |-> "none"]

RECURSIVE TryDrivers(_, _, _)
\* The for loop from configuration i on, after the configurations in tried:
\* the configuration connected (0 when none), the configurations tried, and
\* the exception raised ("" when none).
TryDrivers(outcomes, i, tried) ==
    IF i > Len(drivers_to_try)
    THEN [driver |-> 0, attempts |-> tried, raised |-> "Exception"]
    ELSE IF outcomes[i] = "connected"
         THEN [driver |-> i, attempts |-> Append(tried, i), raised |-> ""]
         ELSE IF drivers_to_try[i][1] = drivers_to_try[Len(drivers_to_try)][1]
              THEN [driver |-> 0, attempts |-> Append(tried, i), raised |-> outcomes[i]]
              ELSE TryDrivers(outcomes, i + 1, Append(tried, i))

get_db_connection(outcomes) == TryDrivers(outcomes, 1, <<>>)

----------------------------------------------------------------------------
(* merge_data.save_to_google_drive_folder                                  *)
(*                                                                         *)
(* A folder is the set of its files; a file is a name and a content; a     *)
(* name is a stem, a sequence of its parts joined by '_', and an           *)
(* extension.                                                              *)

File(stem, ext, content) == [name |-> [stem |-> stem, ext |-> ext], content |-> content]

\* os.path.exists(os.path.join(folder, name))
Exists(folder, name) == \E f \in folder : f.name = name

\* f'{name}_{timestamp}{ext}' of os.path.splitext(file), the timestamp read
\* to the second.
Timestamped(name, now) == [stem |-> Append(name.stem, now), ext |-> name.ext]

\* shutil.move(source_path, archive_path) and shutil.copy2(source, target): a
\* file already at the path is replaced.
PutFile(folder, name, content) ==
    {f \in folder : f.name # name} \cup {[name |-> name, content |-> content]}

RECURSIVE ArchiveExisting(_, _, _)
\* The for loop over existing_files: the archive folder once every file of
\* files is moved into it.
ArchiveExisting(files, archive, now) ==
    IF files = {} THEN archive
    ELSE LET file == CHOOSE f \in files : TRUE
             archive_path == IF Exists(archive, file.name)
                             THEN Timestamped(file.name, now)
                             ELSE file.name
         IN  ArchiveExisting(files \ {file}, PutFile(archive, archive_path, file.content), now)

\* The target folder and its 'archived' folder after the call.
save_to_google_drive_folder(source_file, target, archive, now) ==
    LET existing_files == {f \in target : f.name.ext = ".xlsx" /\ f.name # source_file.name}
    IN  [target |-> PutFile(target \ existing_files, source_file.name, source_file.content),
         archived |-> ArchiveExisting(existing_files, archive, now)]

----------------------------------------------------------------------------
(* Inputs                                                                  *)

MaxEntries == 3

Home == <<"H","o","m","e">>

School == <<"S","c","h","o","o","l">>

Entry(id, client, provider, code, start, end, loc) ==
    [BillingEntryId |-> id, ClientContactId |-> client, ProviderContactId |-> provider,
     ServiceCode |-> code, ServiceStartTime |-> start, ServiceEndTime |-> end,
     ServiceLocationName |-> loc]

\* One day of billing entries: provider 1 delivers direct service, providers 2
\* and 3 supervise.
BillingDay ==
    { Entry(1, 1, 1, "97153", HMS(9, 0, 0), HMS(11, 0, 0), Home),
      Entry(2, 1, 1, "97153", HMS(10, 0, 0), HMS(11, 0, 0), Home),
      Entry(3, 1, 1, "97153", HMS(10, 0, 0), HMS(10, 50, 0), NullStr),
      Entry(4, 2, 1, "97153", HMS(9, 0, 0), HMS(11, 0, 0), Home),
      Entry(5, 1, 1, "97153", HMS(9, 0, 0), HMS(11, 0, 0), Home),
      Entry(6, 1, 1, "97153", HMS(11, 0, 0), HMS(10, 0, 0), Home),
      Entry(7, 1, 3, "97153", HMS(10, 0, 0), HMS(10, 30, 0), Home),
      Entry(8, 1, 2, "97155", HMS(10, 0, 0), HMS(10, 30, 0), Home),
      Entry(9, 1, 2, "97155", HMS(9, 0, 0), HMS(11, 0, 0), Home),
      Entry(10, 1, 3, "97155", HMS(9, 0, 0), HMS(11, 0, 0), Home),
      Entry(11, 1, 3, "97155", HMS(10, 30, 0), HMS(11, 0, 0), School),
      Entry(12, 2, 2, "97155", HMS(10, 0, 0), HMS(10, 30, 0), Home),
      Entry(13, 1, 1, "Non-billable: PM Admin", HMS(10, 30, 0), HMS(11, 0, 0), Home),
      Entry(14, 1, 3, "PDS | BCBA", HMS(9, 0, 0), HMS(10, 0, 0), Home),
      Entry(15, 1, 2, "97155", HMS(11, 0, 0), HMS(11, 30, 0), Home),
      Entry(16, 1, 1, "97151", HMS(9, 0, 0), HMS(11, 0, 0), Home),
      Entry(17, 1, 1, "97153", HMS(23, 0, 0), HMS(24, 0, 0), Home) }

Contact(row, id, first, last) ==
    [RowId |-> row, ContactId |-> id, FirstName |-> first, LastName |-> last]

Ann == <<"A","n","n">>

Lee == <<"L","e","e">>

Bo == <<"B","o">>

Kim == <<"K","i","m">>

Cy == <<"C","y">>

Ray == <<"R","a","y">>

Al == <<"A","l">>

Staff == {Contact(1, 1, Ann, Lee), Contact(2, 2, Bo, Kim), Contact(3, 3, Cy, Ray)}

Employed(id, first, last, position) ==
    [EmployeeId |-> id, EmployeeFirstName |-> first, EmployeeLastName |-> last,
     EmploymentPosition |-> position]

\* The identity tables the pull can meet: <<Contacts, Employee>>.
Identities ==
    { <<Staff, {}>>,
      <<Staff, {Employed(1, Ann, Lee, "RBT"), Employed(2, Bo, Kim, "BCBA")}>>,
      <<Staff, {Employed(1, Ann, Lee, "RBT"), Employed(3, Ann, Lee, "Behavior Technician")}>>,
      <<Staff, {Employed(1, Ann, Lee, "BCBA")}>>,
      <<Staff \cup {Contact(4, 1, Al, Lee)}, {}>>,
      <<{Contact(1, 1, Ann, Lee), Contact(2, 2, Bo, Kim), Contact(3, 3, Ann, Lee)}, {}>>,
      <<{Contact(1, 1, Ann, Lee), Contact(3, 3, Cy, Ray), Contact(5, 3, Cy, Ray)}, {}>> }

----------------------------------------------------------------------------
(* The pipeline                                                            *)

InitWith(entries, identities) ==
    /\ billing \in SubsetsUpTo(entries, MaxEntries)
    /\ \E i \in identities : contacts = i[1] /\ employee = i[2]
    /\ pc = "start"
    /\ cte = SupervisionHoursQuery({})
    /\ raw_df = <<>>
    /\ transformed_df = <<>>
    /\ bacb_df = <<>>
    /\ final_df = <<>>
    /\ log = <<>>
    /\ error = ""
    /\ exit_code = -1
    /\ odbc = EveryDriverConnects
    /\ attempts = <<>>
    /\ conn = NoConnection
    /\ target_folder = {}
    /\ archive_folder = {}
    /\ clock = 1

Init == InitWith(BillingDay, Identities)

\* pull_data.execute_supervision_query: pd.read_sql of the formatted template.
execute_supervision_query ==
    /\ pc = "start"
    /\ cte' = SupervisionHoursQuery(billing)
    /\ raw_df' \in QueryResults(cte'.result)
    /\ pc' = "pulled"
    /\ UNCHANGED <<odbc, attempts, conn, target_folder, archive_folder, clock>>
    /\ UNCHANGED <<billing, contacts, employee, transformed_df,
                   bacb_df, final_df, log, error, exit_code>>

\* run_pipeline.main's second phase: transform_data_main(df=raw_df).
transform_data_main ==
    /\ pc = "pulled"
    /\ transformed_df' = transform_data(raw_df)
    /\ pc' = "transformed"
    /\ log' = Append(log, "transform")
    /\ UNCHANGED <<odbc, attempts, conn, target_folder, archive_folder, clock>>
    /\ UNCHANGED <<billing, contacts, employee, cte, raw_df,
                   bacb_df, final_df, error, exit_code>>

Next == execute_supervision_query \/ transform_data_main

Spec == Init /\ [][Next]_vars

----------------------------------------------------------------------------
(* One direct and one supervision entry over a grid of times               *)

\* Start and end times of the two entries: whole and half minutes, so that
\* intervals nest, cross, touch, are disjoint, are empty and run backwards.
TimeGrid == {HMS(9, 0, 0), HMS(9, 59, 30), HMS(10, 0, 0), HMS(10, 0, 30), HMS(11, 0, 0)}

InitPairs ==
    /\ \E ds \in TimeGrid, de \in TimeGrid, ss \in TimeGrid, se \in TimeGrid, c \in {1, 2} :
           billing = { Entry(1, 1, 1, "97153", ds, de, Home),
                       Entry(2, c, 2, "97155", ss, se, Home) }
    /\ contacts = Staff
    /\ employee = {}
    /\ pc = "start"
    /\ cte = SupervisionHoursQuery({})
    /\ raw_df = <<>>
    /\ transformed_df = <<>>
    /\ bacb_df = <<>>
    /\ final_df = <<>>
    /\ log = <<>>
    /\ error = ""
    /\ exit_code = -1
    /\ odbc = EveryDriverConnects
    /\ attempts = <<>>
    /\ conn = NoConnection
    /\ target_folder = {}
    /\ archive_folder = {}
    /\ clock = 1

SpecPairs == InitPairs /\ [][Next]_vars

----------------------------------------------------------------------------
(* The pipeline over a day of two direct sessions and their supervisors    *)

MaxDirectEntries == 4

\* Provider 1 delivers two sessions to client 1 and one to client 2; provider
\* 2 supervises in the morning, provider 3 at noon.
DirectDay ==
    { e \in BillingDay : e.BillingEntryId \in {1, 4, 8, 15} } \cup
    { Entry(21, 1, 3, "97155", HMS(12, 0, 0), HMS(13, 0, 0), Home),
      Entry(22, 1, 1, "97153", HMS(12, 0, 0), HMS(13, 0, 0), Home) }

InitDirect ==
    /\ billing \in SubsetsUpTo(DirectDay, MaxDirectEntries)
    /\ contacts = Staff
    /\ employee = {}
    /\ pc = "start"
    /\ cte = SupervisionHoursQuery({})
    /\ raw_df = <<>>
    /\ transformed_df = <<>>
    /\ bacb_df = <<>>
    /\ final_df = <<>>
    /\ log = <<>>
    /\ error = ""
    /\ exit_code = -1
    /\ odbc = EveryDriverConnects
    /\ attempts = <<>>
    /\ conn = NoConnection
    /\ target_folder = {}
    /\ archive_folder = {}
    /\ clock = 1

SpecDirect == InitDirect /\ [][Next]_vars

----------------------------------------------------------------------------
(* transform_data.main: transform_data over a frame read from a file       *)

MaxRows == 3

Row(client, office, id, first, last, dhours, shours, sfirst, slast, row_type) ==
    [ClientContactId |-> client,
     ClientFullName |-> IF client = 1 THEN <<"K","i","d"," ","A">> ELSE <<"K","i","d"," ","B">>,
     ClientOfficeLocationName |-> office,
     DirectProviderId |-> id,
     DirectFirstName |-> first,
     DirectLastName |-> last,
     DirectServiceLocationName |-> IF id = 0 THEN NullStr ELSE Home,
     DirectHours |-> dhours,
     SupervisionHours |-> shours,
     SupervisorFirstName |-> sfirst,
     SupervisorLastName |-> slast,
     SupervisorServiceLocationName |-> IF row_type = DIRECT_ONLY THEN NullStr ELSE Home,
     RowType |-> row_type]

Ash == <<"A","s","h">>

Oak == <<"O","a","k"," ","C","l","i","n","i","c">>

\* Rows of a raw pull, in the column layout of the query.
RawRows ==
    { Row(1, Ash, 1, Ann, Lee, 150, 0, NullStr, NullStr, DIRECT_ONLY),
      Row(2, Ash, 1, Al, Lee, 100, 0, NullStr, NullStr, DIRECT_ONLY),
      Row(1, Ash, 1, Ann, Lee, 50, 50, Bo, Kim, OVERLAPPED),
      Row(1, Ash, 1, Al, Lee, 50, 50, Cy, Ray, OVERLAPPED),
      Row(2, Oak, 3, Cy, Ray, 50, 0, NullStr, NullStr, DIRECT_ONLY),
      Row(1, Ash, 3, Cy, Ray, 50, 0, NullStr, NullStr, DIRECT_ONLY),
      Row(2, Oak, 1, Ann, Lee, 100, 100, Bo, Kim, OVERLAPPED),
      Row(1, Ash, 0, NullStr, NullStr, 0, 100, Bo, Kim, SUPERVISION_ONLY) }

RECURSIVE FramesUpTo(_, _)
\* The frames of at most n rows drawn from rows.
FramesUpTo(rows, n) ==
    IF n = 0 THEN {<<>>}
    ELSE LET F == FramesUpTo(rows, n - 1) IN F \cup {Append(f, r) : f \in F, r \in rows}

\* transform_data_main(input_file=...): df = pd.read_csv(input_file).
InitFrames ==
    /\ billing = {}
    /\ contacts = {}
    /\ employee = {}
    /\ pc = "pulled"
    /\ cte = SupervisionHoursQuery({})
    /\ raw_df \in FramesUpTo(RawRows, MaxRows)
    /\ transformed_df = <<>>
    /\ bacb_df = <<>>
    /\ final_df = <<>>
    /\ log = <<>>
    /\ error = ""
    /\ exit_code = -1
    /\ odbc = EveryDriverConnects
    /\ attempts = <<>>
    /\ conn = NoConnection
    /\ target_folder = {}
    /\ archive_folder = {}
    /\ clock = 1

SpecFrames == InitFrames /\ [][transform_data_main]_vars

----------------------------------------------------------------------------
(* transform_data.main over frames of diagnostics offices                  *)

MaxClinicRows == 2

AshDiagnostics == <<"A","s","h"," ","D","i","a","g","n","o","s","t","i","c","s">>

OrgDiagnostics == <<"O","R","G","A","N","I","Z","A","T","I","O","N","_","d","i","a","g","n","o","s","t","i","c","s"," ","C","l","i","n","i","c">>

Blank == <<" ">>

\* The offices and the service locations of the rows.
Offices == {Ash \o Str_Clinic, AshDiagnostics, OrgDiagnostics}

Locations == {NullStr, Home, Oak, Blank, Str_nan}

\* A direct-only row of provider 1 with the given office and location.
ClinicRow(office, location) ==
    [Row(1, office, 1, Ann, Lee, 100, 0, NullStr, NullStr, DIRECT_ONLY)
        EXCEPT !.DirectServiceLocationName = location]

\* transform_data_main(input_file=...) or transform_data_main(df=...).
InitClinics ==
    /\ billing = {}
    /\ contacts = {}
    /\ employee = {}
    /\ pc = "pulled"
    /\ cte = SupervisionHoursQuery({})
    /\ raw_df \in FramesUpTo({ClinicRow(o, l) : o \in Offices, l \in Locations}, MaxClinicRows)
    /\ transformed_df = <<>>
    /\ bacb_df = <<>>
    /\ final_df = <<>>
    /\ log = <<>>
    /\ error = ""
    /\ exit_code = -1
    /\ odbc = EveryDriverConnects
    /\ attempts = <<>>
    /\ conn = NoConnection
    /\ target_folder = {}
    /\ archive_folder = {}
    /\ clock = 1

SpecClinics == InitClinics /\ [][transform_data_main]_vars

----------------------------------------------------------------------------
(* The third phase, and merge_data.main: merge_data over frames read from  *)
(* files                                                                   *)

\* The workbook merge_data_main writes: daily_supervision_hours_transformed_
\* and the date, .xlsx.
OutputFile(frame) == File(<<"daily_supervision_hours_transformed", "today">>, ".xlsx", frame)

\* merge_data_main returns: merge_data returned a frame and it was saved; the
\* workbook is copied to the Google Drive folder, or the copy fails and the
\* exception is logged and dropped.
merge_data_main ==
    /\ pc = "transformed"
    /\ \E outcome \in merge_data(transformed_df, bacb_df) :
           /\ outcome.raised = ""
           /\ final_df' = outcome.frame
    /\ \/ LET saved == save_to_google_drive_folder(OutputFile(final_df'), target_folder,
                                                  archive_folder, clock)
          IN  target_folder' = saved.target /\ archive_folder' = saved.archived
       \/ UNCHANGED <<target_folder, archive_folder>>
    /\ pc' = "merged"
    /\ log' = Append(log, "merge")
    /\ exit_code' = 0
    /\ UNCHANGED <<odbc, attempts, conn, clock>>
    /\ UNCHANGED <<billing, contacts, employee, cte, raw_df, transformed_df,
                   bacb_df, error>>

\* merge_data_main raises: merge_data raised, or a file could not be read,
\* archived or written (OSError).
merge_data_main_raises ==
    /\ pc = "transformed"
    /\ error' \in ({"OSError"}
                   \cup {outcome.raised : outcome \in merge_data(transformed_df, bacb_df)})
                  \ {""}
    /\ pc' = "failed"
    /\ exit_code' = 1
    /\ UNCHANGED <<odbc, attempts, conn, target_folder, archive_folder, clock>>
    /\ UNCHANGED <<billing, contacts, employee, cte, raw_df, transformed_df,
                   bacb_df, final_df, log>>

Report(clinic, id, name, dhours, shours) ==
    [Clinic |-> clinic, DirectProviderId |-> id, DirectProviderName |-> name,
     DirectHours |-> dhours, SupervisionHours |-> shours]

\* Rows of a transformed file.
ReportRows ==
    { Report(Ash, 1, Ann \o <<" ">> \o Lee, 100, 0),
      Report(Ash, 3, Cy \o <<" ">> \o Ray, 300, 100),
      Report(Oak, 1, Ann \o <<" ">> \o Lee, 0, 50),
      Report(Oak, 2, Bo \o <<" ">> \o Kim, 800, 1) }

BACB_MEETING == "BACB Supervision Meeting (w/out client)"

VA_MEETING == "VA Medicaid Supervision (w/o Client)"

\* Billing entries of meetings without the client.
BacbDay ==
    { Entry(18, 1, 1, BACB_MEETING, HMS(13, 0, 0), HMS(13, 30, 0), Home),
      Entry(19, 1, 3, VA_MEETING, HMS(13, 0, 0), HMS(15, 0, 0), Home),
      Entry(20, 2, 1, BACB_MEETING, HMS(14, 0, 0), HMS(14, 30, 0), Home) }

\* merge_data_main(transformed_file=..., bacb_file=...): a transformed file,
\* its rows in the order transform_data sorts them, and a BACB file of a pull.
InitMerge ==
    /\ billing = {}
    /\ contacts = {}
    /\ employee = {}
    /\ pc = "transformed"
    /\ cte = SupervisionHoursQuery({})
    /\ raw_df = <<>>
    /\ \E rows \in SUBSET ReportRows :
           LET listed == SetToSeq(rows)
           IN  transformed_df =
                   StableSort(listed, [i \in 1..Len(listed) |-> [j \in 1..Len(listed) |->
                                          ReportLess(listed[i], listed[j])]])
    /\ \E entries \in SUBSET BacbDay : bacb_df = BacbSupervisionQuery(entries)
    /\ final_df = <<>>
    /\ log = <<>>
    /\ error = ""
    /\ exit_code = -1
    /\ odbc = EveryDriverConnects
    /\ attempts = <<>>
    /\ conn = NoConnection
    /\ target_folder = {}
    /\ archive_folder = {}
    /\ clock = 1

SpecMerge == InitMerge /\ [][merge_data_main \/ merge_data_main_raises]_vars

----------------------------------------------------------------------------
(* save_to_google_drive_folder, called again and again                     *)

MaxClock == 2

\* The workbooks copied to the folder: two names, two contents.
Workbooks == {File(<<n>>, ".xlsx", c) : n \in {"monday", "tuesday"}, c \in {1, 2}}

\* What the folder can hold besides: an older workbook and a text file.
OtherFiles == {File(<<"sunday">>, ".xlsx", 1), File(<<"notes">>, ".txt", 1)}

InitDrive ==
    /\ billing = {}
    /\ contacts = {}
    /\ employee = {}
    /\ pc = "merged"
    /\ cte = SupervisionHoursQuery({})
    /\ raw_df = <<>>
    /\ transformed_df = <<>>
    /\ bacb_df = <<>>
    /\ final_df = <<>>
    /\ log = <<>>
    /\ error = ""
    /\ exit_code = -1
    /\ odbc = EveryDriverConnects
    /\ attempts = <<>>
    /\ conn = NoConnection
    /\ target_folder \in SUBSET OtherFiles
    /\ archive_folder = {}
    /\ clock = 1

\* One call of save_to_google_drive_folder that returns.
call_save_to_google_drive_folder ==
    /\ \E source_file \in Workbooks :
           LET saved == save_to_google_drive_folder(source_file, target_folder,
                                                   archive_folder, clock)
           IN  target_folder' = saved.target /\ archive_folder' = saved.archived
    /\ UNCHANGED <<billing, contacts, employee, pc, cte, raw_df, transformed_df,
                   bacb_df, final_df, log, error, exit_code, odbc, attempts, conn, clock>>

\* A second passes between two calls.
tick ==
    /\ clock < MaxClock
    /\ clock' = clock + 1
    /\ UNCHANGED <<billing, contacts, employee, pc, cte, raw_df, transformed_df,
                   bacb_df, final_df, log, error, exit_code, odbc, attempts, conn,
                   target_folder, archive_folder>>

SpecDrive == InitDrive /\ [][call_save_to_google_drive_folder \/ tick]_vars

----------------------------------------------------------------------------
(* run_pipeline.main: the three phases in one run                          *)

\* Phase 1 returns: pull_data_main ran both queries and saved both frames.
pull_data_main ==
    /\ pc = "start"
    /\ LET connected == get_db_connection(odbc)
       IN  /\ connected.raised = ""
           /\ attempts' = connected.attempts
           /\ conn' = [driver |-> connected.driver, state |-> "closed"]
    /\ cte' = SupervisionHoursQuery(billing)
    /\ raw_df' \in QueryResults(cte'.result)
    /\ bacb_df' = BacbSupervisionQuery(billing)
    /\ pc' = "pulled"
    /\ log' = Append(log, "pull")
    /\ UNCHANGED <<odbc, target_folder, archive_folder, clock>>
    /\ UNCHANGED <<billing, contacts, employee, transformed_df, final_df, error, exit_code>>

\* Phase 1 raises: get_db_connection raises, or pd.read_sql raises in one of
\* the two queries (DatabaseError) and pull_data_main is left before
\* conn.close(), or a file cannot be written (OSError) after it; main's
\* handler logs the failure and returns 1.
pull_data_main_raises ==
    /\ pc = "start"
    /\ LET connected == get_db_connection(odbc)
       IN  /\ attempts' = connected.attempts
           /\ IF connected.raised # ""
              THEN error' = connected.raised /\ conn' = NoConnection
              ELSE \/ /\ error' = "DatabaseError"
                      /\ conn' = [driver |-> connected.driver, state |-> "open"]
                   \/ /\ error' = "OSError"
                      /\ conn' = [driver |-> connected.driver, state |-> "closed"]
    /\ pc' = "failed"
    /\ exit_code' = 1
    /\ UNCHANGED <<odbc, target_folder, archive_folder, clock>>
    /\ UNCHANGED <<billing, contacts, employee, cte, raw_df, transformed_df,
                   bacb_df, final_df, log>>

\* A handler that keeps going: the failure is recorded and the run goes on to
\* the next phase with an empty frame.
transform_data_main_swallowed ==
    /\ pc = "pulled"
    /\ error' = "OSError"
    /\ transformed_df' = <<>>
    /\ pc' = "transformed"
    /\ UNCHANGED <<odbc, attempts, conn, target_folder, archive_folder, clock>>
    /\ UNCHANGED <<billing, contacts, employee, cte, raw_df,
                   bacb_df, final_df, log, exit_code>>

\* Phase 2 raises: the transformed file cannot be archived or written; main's
\* handler logs the failure and returns 1.
transform_data_main_raises ==
    /\ pc = "pulled"
    /\ error' = "OSError"
    /\ pc' = "failed"
    /\ exit_code' = 1
    /\ UNCHANGED <<odbc, attempts, conn, target_folder, archive_folder, clock>>
    /\ UNCHANGED <<billing, contacts, employee, cte, raw_df, transformed_df,
                   bacb_df, final_df, log>>

\* One day of billing entries with direct service, supervision and meetings
\* without the client.
RunDay ==
    { e \in BillingDay : e.BillingEntryId \in {1, 7, 8, 15} } \cup
    { e \in BacbDay : e.BillingEntryId \in {18, 19} }

InitMain == InitWith(RunDay, {<<Staff, {}>>})

NextMain ==
    \/ pull_data_main
    \/ pull_data_main_raises
    \/ transform_data_main
    \/ transform_data_main_raises
    \/ merge_data_main
    \/ merge_data_main_raises

SpecMain == InitMain /\ [][NextMain]_vars

----------------------------------------------------------------------------
(* pull_data.main: one pull, whatever pyodbc.connect does                  *)

InitPull ==
    /\ billing = RunDay
    /\ contacts = Staff
    /\ employee = {}
    /\ pc = "start"
    /\ cte = SupervisionHoursQuery({})
    /\ raw_df = <<>>
    /\ transformed_df = <<>>
    /\ bacb_df = <<>>
    /\ final_df = <<>>
    /\ log = <<>>
    /\ error = ""
    /\ exit_code = -1
    /\ odbc \in [1..Len(drivers_to_try) -> ConnectOutcomes]
    /\ attempts = <<>>
    /\ conn = NoConnection
    /\ target_folder = {}
    /\ archive_folder = {}
    /\ clock = 1

SpecPull == InitPull /\ [][pull_data_main \/ pull_data_main_raises]_vars

----------------------------------------------------------------------------
(* Properties of overlap_raw                                               *)

\* The billing entry with the given BillingEntryId.
BilledEntry(id) == CHOOSE e \in billing : e.BillingEntryId = id

Later(a, b) == IF a >= b THEN a ELSE b

Earlier(a, b) == IF a <= b THEN a ELSE b

\* DATEDIFF(MINUTE, start, end) / 60.0 of an entry: its duration in hours.
Duration(e) == DivideBy60(DATEDIFF_MINUTE(e.ServiceStartTime, e.ServiceEndTime))

\* C1: for every direct entry d and supervision entry s that overlap_raw
\* joins (same client, d.start < s.end, d.end > s.start), the hours the
\* four-case rule yields are the minutes from the later start to the earlier
\* end, as DATEDIFF(MINUTE) counts them, divided by 60.
C1_FourCasesAreTheIntersection ==
    pc # "start" =>
        \A r \in cte.overlap_raw :
            LET d == BilledEntry(r.DirectEntryId)
                s == BilledEntry(r.SupervisionEntryId)
            IN  r.OverlapHours =
                    DivideBy60(DATEDIFF_MINUTE(
                        Later(d.ServiceStartTime, s.ServiceStartTime),
                        Earlier(d.ServiceEndTime, s.ServiceEndTime)))

\* A joined pair that crosses: the direct entry starts and ends first.
C1_CrossingPairJoined ==
    /\ pc # "start"
    /\ \E r \in cte.overlap_raw :
           LET d == BilledEntry(r.DirectEntryId)
               s == BilledEntry(r.SupervisionEntryId)
           IN  /\ d.ServiceStartTime < s.ServiceStartTime
               /\ d.ServiceEndTime < s.ServiceEndTime
               /\ r.OverlapHours > 0

\* C10: the hours of every pair overlap_raw joins are at least 0 and at most
\* the duration of the direct entry and the duration of the supervision entry.
C10_PairOverlapWithinDurations ==
    pc # "start" =>
        \A r \in cte.overlap_raw :
            /\ r.OverlapHours >= 0
            /\ r.OverlapHours <= Duration(BilledEntry(r.DirectEntryId))
            /\ r.OverlapHours <= Duration(BilledEntry(r.SupervisionEntryId))

----------------------------------------------------------------------------
(* Properties of the query's totals                                        *)

SameDirectKey(x, y) ==
    /\ x.ClientContactId = y.ClientContactId
    /\ x.DirectProviderId = y.DirectProviderId
    /\ x.DirectServiceLocationName = y.DirectServiceLocationName

\* The overlap hours attributed to the key of dt: the sum over the rows of
\* overlap of that client, direct provider and direct location, in centi-hours.
Attributed(dt) ==
    SumFn([o \in cte.overlap |-> o.OverlapHours],
          {o \in cte.overlap : SameDirectKey(o, dt)})

\* The direct_only row of the key of dt.
ResidualRow(dt) == CHOOSE r \in cte.direct_only : SameDirectKey(r, dt)

C4_NegativeResidualEmitted ==
    pc # "start" =>
        \A r \in cte.direct_only :
            r.DirectHours_NoSupervision < 0 =>
                \E i \in 1..Len(raw_df) :
                    /\ raw_df[i].RowType = DIRECT_ONLY
                    /\ SameDirectKey(raw_df[i], r)
                    /\ raw_df[i].DirectHours = r.DirectHours_NoSupervision

Covers(s, d) ==
    /\ s.ClientContactId = d.ClientContactId
    /\ s.ServiceStartTime <= d.ServiceStartTime
    /\ d.ServiceEndTime <= s.ServiceEndTime

\* d is a one-hour direct entry, alone in its key, that exactly two
\* supervision entries overlap, s1 and s2, of two supervisors, each covering it.
CoveredTwice(d, s1, s2) ==
    /\ d.ServiceEndTime - d.ServiceStartTime = 3600
    /\ \A e \in cte.direct :
           /\ e.ClientContactId = d.ClientContactId
           /\ e.ProviderContactId = d.ProviderContactId
           /\ e.ServiceLocationName = d.ServiceLocationName
           => e = d
    /\ s1.ProviderContactId # s2.ProviderContactId
    /\ Covers(s1, d)
    /\ Covers(s2, d)
    /\ \A s \in cte.supervision : OverlapJoin(d, s) => s \in {s1, s2}

\* C5: when two supervision entries of two different supervisors each cover
\* the same one-hour direct entry, overlap_by_direct attributes 2 hours to
\* that direct provider: the sum over the supervisors is not capped at the
\* hour.
C5_TwoSupervisorsSumToTwoHours ==
    pc # "start" =>
        \A d \in cte.direct : \A s1 \in cte.supervision : \A s2 \in cte.supervision :
            CoveredTwice(d, s1, s2) =>
                \E od \in cte.overlap_by_direct :
                    /\ od.ClientContactId = d.ClientContactId
                    /\ od.DirectProviderId = d.ProviderContactId
                    /\ od.DirectServiceLocationName = d.ServiceLocationName
                    /\ od.OverlapHours_Total = 200

C5_HourCoveredTwice ==
    /\ pc # "start"
    /\ \E d \in cte.direct : \E s1 \in cte.supervision : \E s2 \in cte.supervision :
           CoveredTwice(d, s1, s2)

\* C6: in every result of the query, the 'Direct overlapped with supervision'
\* rows that share DirectProviderId, ClientOfficeLocationName, ClientContactId
\* and DirectServiceLocationName carry the same DirectHours.
C6_OverlapRowsShareDirectHours ==
    pc # "start" =>
        \A i \in 1..Len(raw_df) : \A j \in 1..Len(raw_df) :
            /\ raw_df[i].RowType = OVERLAPPED
            /\ raw_df[j].RowType = OVERLAPPED
            /\ OverlapGroupKey(raw_df[i]) = OverlapGroupKey(raw_df[j])
            => raw_df[i].DirectHours = raw_df[j].DirectHours

----------------------------------------------------------------------------
(* Properties of the pipeline's report                                     *)

\* The batch of the example: one client, one direct entry 09:00-11:00 by P
\* and one supervision entry 10:00-10:30 by another provider S1.
ExampleBatch(d, s) ==
    /\ billing = {d, s}
    /\ d.ServiceCode = DIRECT_SERVICE_CODE
    /\ d.ServiceStartTime = HMS(9, 0, 0)
    /\ d.ServiceEndTime = HMS(11, 0, 0)
    /\ s.ServiceCode \in SUPERVISION_SERVICE_CODES
    /\ s.ServiceStartTime = HMS(10, 0, 0)
    /\ s.ServiceEndTime = HMS(10, 30, 0)
    /\ s.ClientContactId = d.ClientContactId
    /\ s.ProviderContactId # d.ProviderContactId

\* P has one Contacts row, with a name no Contacts row of S1 carries, and
\* matches at most one Employee row, none in a BCBA position.
ExampleIdentity(d, s) ==
    \E c \in contacts :
        /\ {x \in contacts : x.ContactId = d.ProviderContactId} = {c}
        /\ ~IsNull(c.FirstName) /\ ~IsNull(c.LastName)
        /\ Cardinality(LeftJoinEmployee(c)) = 1
        /\ \A e \in LeftJoinEmployee(c) : NotBCBA(e)
        /\ \A x \in contacts :
               x.ContactId = s.ProviderContactId =>
                   <<x.FirstName, x.LastName>> # <<c.FirstName, c.LastName>>

\* The report is one row, of provider p, with the given hours.
OneRowReport(p, direct_hours, supervision_hours) ==
    /\ Len(transformed_df) = 1
    /\ transformed_df[1].DirectProviderId = p
    /\ transformed_df[1].DirectHours = direct_hours
    /\ transformed_df[1].SupervisionHours = supervision_hours

\* C2 as stated: the example's report is one row for P with DirectHours 1.5
\* and SupervisionHours 0.5.
C2_ExampleShowsResidual ==
    pc = "transformed" =>
        \A d \in billing : \A s \in billing :
            ExampleBatch(d, s) /\ ExampleIdentity(d, s) =>
                OneRowReport(d.ProviderContactId, 150, 50)

\* C2 amended: for the batch of the example, with P on one Contacts row under
\* a name other than S1's and on no BCBA or duplicate Employee row, the
\* pipeline emits exactly one row for P, with DirectHours = 2.0 (the residual
\* 1.5 plus the overlapped 0.5) and SupervisionHours = 0.5.
C2_ExampleShowsTotal ==
    pc = "transformed" =>
        \A d \in billing : \A s \in billing :
            ExampleBatch(d, s) /\ ExampleIdentity(d, s) =>
                OneRowReport(d.ProviderContactId, 200, 50)

C2_ExampleTransformed ==
    /\ pc = "transformed"
    /\ \E d \in billing : \E s \in billing : ExampleBatch(d, s) /\ ExampleIdentity(d, s)

\* C7: when an id occurs in the batch with two different non-null (first
\* name, last name) pairs, the DirectProviderName of that id in the report is
\* the name of the first row of the batch that carries the id with a name.
C7_FirstSeenNameWins ==
    pc = "transformed" =>
        \A k \in 1..Len(transformed_df) :
            LET id == transformed_df[k].DirectProviderId
                named == {i \in 1..Len(raw_df) :
                             raw_df[i].DirectProviderId = id /\ HasDirectName(raw_df[i])}
                pairs == {<<raw_df[i].DirectFirstName, raw_df[i].DirectLastName>> : i \in named}
            IN  Cardinality(pairs) >= 2 =>
                    transformed_df[k].DirectProviderName = FullName(raw_df[Least(named)])

\* The rows of the batch whose direct name pair is the supervisor pair of a
\* row of the batch, removed.
WithoutSupervisorRows(df) ==
    LET supervisors_ == supervisors(df)
    IN  Select(df, [i \in 1..Len(df) |-> ~MatchesSupervisor(df[i], supervisors_)])

\* C8: no row of the batch whose (DirectFirstName, DirectLastName) is the
\* (SupervisorFirstName, SupervisorLastName) of a row of the batch contributes
\* to the report: the report is the one of the batch without those rows.
C8_SupervisorRowsContributeNothing ==
    pc = "transformed" =>
        transformed_df = transform_data(WithoutSupervisorRows(raw_df))

\* C9: every row of the report carries the id of a provider with a direct
\* (97153) entry in the batch: a provider who only supervises is no row's
\* DirectProviderId, and a 'Supervision without direct overlap' row, whose
\* DirectProviderId is NULL, produces no row.
C9_OnlyDirectProvidersReported ==
    pc = "transformed" =>
        \A k \in 1..Len(transformed_df) :
            \E b \in cte.base :
                /\ b.ServiceCode = DIRECT_SERVICE_CODE
                /\ b.ProviderContactId = transformed_df[k].DirectProviderId

\* A report beside a supervision-only row of a provider who only supervises.
C9_SupervisionOnlyRowSkipped ==
    /\ pc = "transformed"
    /\ Len(transformed_df) > 0
    /\ \E i \in 1..Len(raw_df) : raw_df[i].RowType = SUPERVISION_ONLY
    /\ \E s \in cte.supervision : \A d \in cte.direct :
           d.ProviderContactId # s.ProviderContactId

----------------------------------------------------------------------------
(* Properties of entries that do not intersect                             *)

\* d ends no later than s starts, or s ends no later than d starts.
DisjointOrTouching(d, s) ==
    \/ d.ServiceEndTime <= s.ServiceStartTime
    \/ s.ServiceEndTime <= d.ServiceStartTime

\* The rows of overlap_raw when d is never paired with s.
OverlapRawWithoutPair(d, s) ==
    overlap_raw(cte.direct \ {d}, cte.supervision)
        \cup overlap_raw({d}, cte.supervision \ {s})

\* C11: a direct entry d and a supervision entry s of the same client that are
\* disjoint or only touch at an endpoint (d.end = s.start or d.start = s.end)
\* are no row of overlap_raw, and every overlap total (overlap,
\* overlap_by_direct, overlap_by_supervision) is what it is when the pair is
\* never joined: the pair adds 0 hours.
C11_DisjointOrTouchingAddNothing ==
    pc # "start" =>
        \A d \in cte.direct : \A s \in cte.supervision :
            d.ClientContactId = s.ClientContactId /\ DisjointOrTouching(d, s) =>
                LET without == overlap(OverlapRawWithoutPair(d, s))
                IN  /\ \A r \in cte.overlap_raw :
                           ~(/\ r.DirectEntryId = d.BillingEntryId
                             /\ r.SupervisionEntryId = s.BillingEntryId)
                    /\ cte.overlap = without
                    /\ cte.overlap_by_direct = overlap_by_direct(without)
                    /\ cte.overlap_by_supervision = overlap_by_supervision(without)

\* A direct entry that ends when a supervision entry of its client starts,
\* both of positive length.
C11_EntriesTouch ==
    /\ pc # "start"
    /\ \E d \in cte.direct : \E s \in cte.supervision :
           /\ d.ClientContactId = s.ClientContactId
           /\ d.ServiceStartTime < d.ServiceEndTime
           /\ d.ServiceEndTime = s.ServiceStartTime
           /\ s.ServiceStartTime < s.ServiceEndTime

----------------------------------------------------------------------------
(* Properties of the report's values                                       *)

\* C12: every row transform_data returns over a result of the supervision
\* hours query has DirectHours >= 0 and SupervisionHours >= 0.
C12_ReportHoursNotNegative ==
    pc = "transformed" =>
        \A k \in 1..Len(transformed_df) :
            /\ transformed_df[k].DirectHours >= 0
            /\ transformed_df[k].SupervisionHours >= 0

\* A report over a query in which a direct residual is below zero.
C12_ReportBesideNegativeResidual ==
    /\ pc = "transformed"
    /\ Len(transformed_df) > 0
    /\ \E r \in cte.direct_only : r.DirectHours_NoSupervision < 0

----------------------------------------------------------------------------
(* Properties of the percentage                                            *)

\* The numbers a and b are equal.
SameValue(a, b) ==
    /\ a.kind = b.kind
    /\ a.num * b.den = b.num * a.den

\* C13: merge_data does not raise while it computes the percentage, and the
\* percentage of every row it returns is null when DirectHours = 0 and
\* round(100 * SupervisionHours / DirectHours, 2) otherwise.
C13_PercentageOfSupervisionHours ==
    /\ error # "TypeError"
    /\ pc = "merged" =>
           \A i \in 1..Len(final_df) :
               SameValue(final_df[i].TotalSupervisionPercent,
                         IF final_df[i].DirectHours = 0 THEN NA
                         ELSE Number(RoundHalfEven(10000 * final_df[i].SupervisionHours,
                                                   final_df[i].DirectHours), 100))

----------------------------------------------------------------------------
(* Properties of transform_data as a function of the batch                 *)

\* The frames that hold the rows of df in some order.
Reorderings(df) ==
    LET n == Len(df)
        orders == {p \in [1..n -> 1..n] : \A i \in 1..n : \E j \in 1..n : p[j] = i}
    IN  {[i \in 1..n |-> df[p[i]]] : p \in orders}

\* C14: for every permutation of the rows of the batch, transform_data
\* returns the same set of rows, with the same Clinic, DirectProviderId,
\* DirectProviderName, DirectHours and SupervisionHours.
C14_PermutationInvariant ==
    pc = "transformed" =>
        \A permuted \in Reorderings(raw_df) :
            Range(transform_data(permuted)) = Range(transformed_df)

\* C15: the final aggregation of transform_data (group by DirectProviderId
\* and ClientOfficeLocationName, sum DirectHours and SupervisionHours) applied
\* to its own output yields the same rows, with the same values.
C15_AggregationIdempotent ==
    pc = "transformed" =>
        GroupByProviderOffice(final_aggregation(raw_df)) = final_aggregation(raw_df)

\* The aggregation summed two rows of one (DirectProviderId,
\* ClientOfficeLocationName) into one.
C15_RowsAggregated ==
    /\ pc = "transformed"
    /\ Len(final_aggregation(raw_df)) < Len(combined(filtered_df(raw_df)))

----------------------------------------------------------------------------
(* Properties of the records the query reads                               *)

\* The billing entries that end after they start.
WellFormed(entries) == {e \in entries : e.ServiceEndTime > e.ServiceStartTime}

\* C16: a billing entry whose ServiceEndTime <= ServiceStartTime is dropped:
\* the direct totals, the supervision totals and the overlap of the query are
\* those of the batch without such entries (and the query returns).
C16_MalformedEntriesDropped ==
    pc # "start" =>
        LET clean == SupervisionHoursQuery(WellFormed(billing))
        IN  /\ pc # "failed"
            /\ cte.direct_totals = clean.direct_totals
            /\ cte.supervision_totals = clean.supervision_totals
            /\ cte.overlap = clean.overlap

----------------------------------------------------------------------------
(* Properties of the supervision residual                                  *)

SameSupervisionKey(x, y) ==
    /\ x.ClientContactId = y.ClientContactId
    /\ x.SupervisorProviderId = y.SupervisorProviderId
    /\ x.SupervisorServiceLocationName = y.SupervisorServiceLocationName

\* The overlap hours attributed to the key of st: the sum over the rows of
\* overlap of that client, supervisor and supervisor location, in centi-hours.
AttributedToSupervisor(st) ==
    SumFn([o \in cte.overlap |-> o.OverlapHours],
          {o \in cte.overlap : SameSupervisionKey(o, st)})

\* C17: supervision_only holds a row of a (client, supervisor, supervisor
\* location) key exactly when the key's SupervisionHours_Total minus its
\* attributed overlap is greater than 0, and no 'Supervision without direct
\* overlap' row of the query result carries SupervisionHours <= 0.
C17_OnlyPositiveSupervisionResiduals ==
    pc # "start" =>
        /\ \A st \in cte.supervision_totals :
               (\E so \in cte.supervision_only : SameSupervisionKey(so, st))
                   <=> st.SupervisionHours_Total - Widen(AttributedToSupervisor(st)) > 0
        /\ \A so \in cte.supervision_only :
               \E st \in cte.supervision_totals : SameSupervisionKey(so, st)
        /\ \A i \in 1..Len(raw_df) :
               raw_df[i].RowType = SUPERVISION_ONLY => raw_df[i].SupervisionHours > 0

\* One supervisor's key is partly overlapped and keeps a residual, another's
\* is overlapped whole and keeps none.
C17_ResidualAndNoResidual ==
    /\ pc # "start"
    /\ \E st \in cte.supervision_totals :
           /\ AttributedToSupervisor(st) > 0
           /\ st.SupervisionHours_Total - Widen(AttributedToSupervisor(st)) > 0
    /\ \E st \in cte.supervision_totals :
           /\ st.SupervisionHours_Total > 0
           /\ st.SupervisionHours_Total - Widen(AttributedToSupervisor(st)) <= 0

----------------------------------------------------------------------------
(* Properties of the classification                                        *)

\* The entry ends in the window of the query and its client is a row of
\* Client: base reads it if its service code is one of the four.
InWindow(e) ==
    /\ e.ServiceEndTime >= start_date
    /\ e.ServiceEndTime < end_date
    /\ \E c \in Client : c.ClientId = e.ClientContactId

ClassifiedDirect(e) == \E d \in cte.direct : d.BillingEntryId = e.BillingEntryId

ClassifiedSupervision(e) == \E x \in cte.supervision : x.BillingEntryId = e.BillingEntryId

\* C18: of the entries the query reads, every entry with service code 97153
\* and no other is in direct, every entry with a code in {97155,
\* 'Non-billable: PM Admin', 'PDS | BCBA'} and no other is in supervision, and
\* no entry is in both; an entry with any other code is in neither.
C18_CodesPartitionEntries ==
    pc # "start" =>
        \A e \in billing :
            /\ ClassifiedDirect(e) <=> (InWindow(e) /\ e.ServiceCode = "97153")
            /\ ClassifiedSupervision(e) <=>
                   (InWindow(e) /\ e.ServiceCode \in {"97155", "Non-billable: PM Admin",
                                                      "PDS | BCBA"})
            /\ ~(ClassifiedDirect(e) /\ ClassifiedSupervision(e))

\* A batch with a direct entry, a supervision entry and an entry of another
\* code.
C18_ThreeKindsOfEntries ==
    /\ pc # "start"
    /\ \E e \in billing : ClassifiedDirect(e)
    /\ \E e \in billing : ClassifiedSupervision(e)
    /\ \E e \in billing :
           InWindow(e) /\ ~ClassifiedDirect(e) /\ ~ClassifiedSupervision(e)

----------------------------------------------------------------------------
(* Properties of the report's layout                                       *)

\* x may stand before y in ascending order of (Clinic, DirectProviderName):
\* text by code point, a missing value after every text.
InAscendingOrder(x, y) ==
    IF x.Clinic # y.Clinic THEN NaLastStrLess(x.Clinic, y.Clinic)
    ELSE \/ x.DirectProviderName = y.DirectProviderName
         \/ NaLastStrLess(x.DirectProviderName, y.DirectProviderName)

\* C19: the rows transform_data returns are in ascending order of (Clinic,
\* DirectProviderName), and their columns are Clinic, DirectProviderId,
\* DirectProviderName, DirectHours, SupervisionHours, in this order.
C19_ReportSortedByClinicAndName ==
    pc = "transformed" =>
        /\ \A i \in 1..Len(transformed_df) : \A j \in 1..Len(transformed_df) :
               i < j => InAscendingOrder(transformed_df[i], transformed_df[j])
        /\ \A i \in 1..Len(transformed_df) :
               DOMAIN transformed_df[i] = Range(report_columns)
        /\ report_columns = <<"Clinic", "DirectProviderId", "DirectProviderName",
                              "DirectHours", "SupervisionHours">>

\* The sort moved a row: the first row of the report is not the first row of
\* the aggregation.
C19_SortMovedARow ==
    /\ pc = "transformed"
    /\ Len(transformed_df) >= 2
    /\ transformed_df[1].DirectProviderId # final_aggregation(raw_df)[1].DirectProviderId

----------------------------------------------------------------------------
(* Properties of run_pipeline.main                                         *)

PHASES == <<"pull", "transform", "merge">>

\* The phases that returned are the first ones of PHASES, each once; a raised
\* exception has main return 1; main returns 0 only with all three returned
\* and nothing raised.
PhasesInOrder ==
    /\ \E n \in 0..Len(PHASES) : log = SubSeq(PHASES, 1, n)
    /\ error # "" => exit_code = 1
    /\ exit_code = 0 => log = PHASES /\ error = ""
    /\ exit_code \in {-1, 0, 1}

\* A step of main happens before any exception and before main returned, and
\* either one more phase returns or the phase raises.
PhaseStep ==
    /\ error = ""
    /\ exit_code = -1
    /\ \/ Len(log') = Len(log) + 1 /\ error' = ""
       \/ log' = log /\ error' # ""

\* C20: run_pipeline.main runs pull, then transform, then merge, each at most
\* once and each only after the phase before it returned without an exception;
\* when a phase raises no later phase runs and main returns 1; main returns 0
\* only after all three phases returned.
C20_PhasesRunInOrderUntilOneRaises == [] PhasesInOrder /\ [][PhaseStep]_vars

\* Phase 2 raised after phase 1 returned, and main returned 1.
C20_TransformRaisedAfterPull ==
    /\ pc = "failed"
    /\ log = <<"pull">>
    /\ error = "OSError"
    /\ exit_code = 1

----------------------------------------------------------------------------
(* Properties of the database connection                                   *)

\* C21: get_db_connection tries the four driver configurations in list
\* order, returns the first connection that succeeds without trying a later
\* configuration, and raises only after every one of the four has failed.
C21_FirstWorkingDriverOrAllFailed ==
    pc # "start" =>
        /\ \E n \in 1..Len(drivers_to_try) : attempts = [i \in 1..n |-> i]
        /\ conn.driver # 0 =>
               /\ odbc[conn.driver] = "connected"
               /\ Len(attempts) = conn.driver
               /\ \A i \in 1..(conn.driver - 1) : odbc[i] # "connected"
        /\ conn.driver = 0 =>
               /\ Len(attempts) = Len(drivers_to_try)
               /\ \A i \in 1..Len(drivers_to_try) : odbc[i] # "connected"

\* C29: pull_data_main closes the connection it opened on every path: once
\* the pull is over, returned or raised, no connection is left open.
C29_ConnectionClosedOnEveryPath == pc # "start" => conn.state # "open"

----------------------------------------------------------------------------
(* Properties of the merged frame                                          *)

\* The rows of the BACB frame for the provider of a report row.
BacbRowsOf(t) ==
    {j \in 1..Len(bacb_df) : bacb_df[j].ProviderContactId = t.DirectProviderId}

\* C22: merge_data keeps every row of the transformed data; a row whose
\* DirectProviderId has no match in the BACB data gets BACBSupervisionHours 0,
\* BACBSupervisionCodesOccurred 'No' and TotalSupervisionHours =
\* SupervisionHours; a matched row gets TotalSupervisionHours =
\* SupervisionHours + BACBSupervisionHours.
C22_EveryRowKeptWithBacbColumns ==
    pc = "merged" =>
        /\ Len(final_df) = Len(transformed_df)
        /\ \A i \in 1..Len(transformed_df) :
               LET t == transformed_df[i]
                   f == final_df[i]
               IN  /\ \A c \in Range(report_columns) : f[c] = t[c]
                   /\ BacbRowsOf(t) = {} =>
                          /\ f.BACBSupervisionHours = 0
                          /\ f.BACBSupervisionCodesOccurred = "No"
                          /\ f.TotalSupervisionHours = t.SupervisionHours
                   /\ \A j \in BacbRowsOf(t) :
                          /\ f.BACBSupervisionHours = bacb_df[j].BACBSupervisionHours
                          /\ f.TotalSupervisionHours =
                                 t.SupervisionHours + bacb_df[j].BACBSupervisionHours

\* A merged frame with a provider the BACB data does not hold and a provider
\* with BACB hours.
C22_MatchedAndUnmatchedRows ==
    /\ pc = "merged"
    /\ \E i \in 1..Len(transformed_df) : BacbRowsOf(transformed_df[i]) = {}
    /\ \E i \in 1..Len(transformed_df) : \E j \in BacbRowsOf(transformed_df[i]) :
           bacb_df[j].BACBSupervisionHours > 0

----------------------------------------------------------------------------
(* Properties of direct_totals                                             *)

\* The distinct direct intervals of a direct_totals key.
DirectIntervalsOf(t) ==
    { DistinctInterval(d) : d \in
        { e \in cte.direct : /\ e.ClientContactId = t.ClientContactId
                             /\ e.ProviderContactId = t.DirectProviderId
                             /\ e.ServiceLocationName = t.DirectServiceLocationName } }

\* C23: direct_totals counts each distinct direct interval exactly once:
\* DirectHours_Total of a (client, provider, location) key is the sum of the
\* durations of the key's distinct direct intervals, however many Employee
\* rows match the provider's first and last name.
C23_DirectIntervalsCountedOnce ==
    pc # "start" =>
        \A t \in cte.direct_totals :
            LET minutes == [i \in DirectIntervalsOf(t) |->
                               DATEDIFF_MINUTE(i.ServiceStartTime, i.ServiceEndTime)]
            IN  t.DirectHours_Total = DivideBy60(SumFn(minutes, DirectIntervalsOf(t)))

----------------------------------------------------------------------------
(* Properties of the de-duplication                                        *)

\* The overlap rows of the pull for a provider and office, each told by its
\* client, supervisor and locations; replicated copies of a row are one
\* element.
OverlapRowsOf(id, office) ==
    { <<r.ClientContactId, r.SupervisorFirstName, r.SupervisorLastName,
        r.DirectServiceLocationName, r.SupervisorServiceLocationName,
        r.SupervisionHours>> :
      r \in { raw_df[i] : i \in { k \in 1..Len(raw_df) :
                                    /\ raw_df[k].RowType = OVERLAPPED
                                    /\ raw_df[k].DirectProviderId = id
                                    /\ raw_df[k].ClientOfficeLocationName = office } } }

\* C24: the SupervisionHours of transform_data's row for (DirectProviderId,
\* ClientOfficeLocationName) is the sum of SupervisionHours over all overlap
\* rows of that provider and office that differ in client, supervisor or
\* location: the de-duplication removes only replicated copies of a row and
\* never the row of a different supervisor.
C24_EverySupervisorsOverlapSummed ==
    pc = "transformed" =>
        \A i \in 1..Len(final_aggregation(raw_df)) :
            LET g == final_aggregation(raw_df)[i]
                rows == OverlapRowsOf(g.DirectProviderId, g.ClientOfficeLocationName)
            IN  g.SupervisionHours = SumFn([r \in rows |-> r[6]], rows)

----------------------------------------------------------------------------
(* Properties of the Clinic column                                         *)

\* C27: transform_data's output has at most one row per (Clinic,
\* DirectProviderId): hours of one provider that end up under the same Clinic
\* label are summed into a single row, also when distinct office names clean
\* to the same label or a 'Diagnostics' label is replaced by a service
\* location.
C27_OneRowPerClinicAndProvider ==
    pc = "transformed" =>
        \A i \in 1..Len(transformed_df) : \A j \in 1..Len(transformed_df) :
            /\ transformed_df[i].Clinic = transformed_df[j].Clinic
            /\ transformed_df[i].DirectProviderId = transformed_df[j].DirectProviderId
            => i = j

\* The cleaned service location of an aggregated row, NULL when the row has
\* none.
CleanedLocation(g) ==
    IF IsNull(g.DirectServiceLocationName) THEN NullStr
    ELSE clean_clinic_name(g.DirectServiceLocationName)

\* The cleaned office contains 'Diagnostics' and the cleaned service location
\* is neither null nor empty.
DiagnosticsWithLocation(g) ==
    /\ ContainsIgnoreCase(clean_clinic_name(g.ClientOfficeLocationName), Str_diagnostics)
    /\ ~IsNull(CleanedLocation(g))
    /\ CleanedLocation(g) # <<>>

\* The report rows are the aggregated rows, the i-th under the i-th label.
LabelledBy(labels) ==
    LET aggregated == final_aggregation(raw_df)
        Labelled(i, t) == /\ t.DirectProviderId = aggregated[i].DirectProviderId
                          /\ t.DirectHours = aggregated[i].DirectHours
                          /\ t.SupervisionHours = aggregated[i].SupervisionHours
                          /\ t.Clinic = labels[i]
    IN  /\ Len(transformed_df) = Len(aggregated)
        /\ \A i \in 1..Len(aggregated) :
               \E j \in 1..Len(transformed_df) : Labelled(i, transformed_df[j])
        /\ \A j \in 1..Len(transformed_df) :
               \E i \in 1..Len(aggregated) : Labelled(i, transformed_df[j])

\* The label the claim states.
StatedClinic(g) ==
    IF DiagnosticsWithLocation(g) THEN CleanedLocation(g)
    ELSE clean_clinic_name(g.ClientOfficeLocationName)

\* The label with the text 'nan' taken for a missing location.
StatedClinicUnlessNan(g) ==
    IF DiagnosticsWithLocation(g) /\ CleanedLocation(g) # Str_nan THEN CleanedLocation(g)
    ELSE clean_clinic_name(g.ClientOfficeLocationName)

\* C25 as stated: a row's Clinic is the cleaned DirectServiceLocationName
\* exactly when the cleaned ClientOfficeLocationName contains 'Diagnostics'
\* (case-insensitive) and the cleaned service location is non-null and
\* non-empty; in every other case it is the cleaned ClientOfficeLocationName.
C25_DiagnosticsReplacedByLocation ==
    pc = "transformed" =>
        LabelledBy([i \in 1..Len(final_aggregation(raw_df)) |->
                       StatedClinic(final_aggregation(raw_df)[i])])

\* C25: the same, where a cleaned service location that is the text 'nan'
\* counts as missing.
C25_DiagnosticsReplacedUnlessNan ==
    pc = "transformed" =>
        LabelledBy([i \in 1..Len(final_aggregation(raw_df)) |->
                       StatedClinicUnlessNan(final_aggregation(raw_df)[i])])

\* A report with a 'Diagnostics' office under its service location and one
\* that keeps its label for want of a location.
C25_ReplacedAndKept ==
    /\ pc = "transformed"
    /\ \E i \in 1..Len(final_aggregation(raw_df)) :
           LET g == final_aggregation(raw_df)[i]
           IN  /\ DiagnosticsWithLocation(g)
               /\ CleanedLocation(g) # Str_nan
               /\ \E j \in 1..Len(transformed_df) : transformed_df[j].Clinic = CleanedLocation(g)
    /\ \E i \in 1..Len(final_aggregation(raw_df)) :
           LET g == final_aggregation(raw_df)[i]
           IN  /\ ContainsIgnoreCase(clean_clinic_name(g.ClientOfficeLocationName),
                                     Str_diagnostics)
               /\ ~DiagnosticsWithLocation(g)

----------------------------------------------------------------------------
(* Properties of DirectHours                                               *)

\* The supervisors whose entries overlap the direct interval d.
SupervisorsOver(d) ==
    {sv.ProviderContactId : sv \in {x \in cte.supervision : OverlapJoin(d, x)}}

\* Every direct interval of the provider overlaps supervision from at most one
\* supervisor.
AtMostOneSupervisorEach(id) ==
    \A d \in cte.direct :
        d.ProviderContactId = id => Cardinality(SupervisorsOver(d)) <= 1

\* The minutes of the provider's distinct direct intervals at the office.
DirectMinutesAt(id, office) ==
    LET intervals == { DistinctInterval(d) : d \in
                         { e \in cte.direct : /\ e.ProviderContactId = id
                                              /\ e.ClientOfficeLocationName = office } }
    IN  SumFn([i \in intervals |-> DATEDIFF_MINUTE(i.ServiceStartTime, i.ServiceEndTime)],
              intervals)

\* C28: for every direct provider that is not filtered out and whose direct
\* intervals each overlap supervision from at most one supervisor, the
\* DirectHours of the final row for (provider, office) is the total duration
\* of the provider's direct intervals at that office: no direct minute is lost
\* or counted twice.
C28_DirectHoursAreDirectTime ==
    pc = "transformed" =>
        \A i \in 1..Len(final_aggregation(raw_df)) :
            LET g == final_aggregation(raw_df)[i]
            IN  AtMostOneSupervisorEach(g.DirectProviderId) =>
                    60 * g.DirectHours =
                        100 * DirectMinutesAt(g.DirectProviderId, g.ClientOfficeLocationName)

----------------------------------------------------------------------------
(* Properties of the Google Drive folder                                   *)

\* The .xlsx files directly in a folder.
Xlsx(folder) == {f \in folder : f.name.ext = ".xlsx"}

\* C26: save_to_google_drive_folder moves every .xlsx file already in the
\* target folder under a name other than the new output's into 'archived'
\* before it copies the new file, archiving never overwrites a file already
\* present in 'archived' (a colliding name gets a timestamp suffix), and
\* afterwards the new output is the only .xlsx directly in the target folder.
C26_ArchivedNotOverwritten ==
    [][ (target_folder' # target_folder \/ archive_folder' # archive_folder) =>
            /\ \A f \in archive_folder : f \in archive_folder'
            /\ Cardinality(Xlsx(target_folder')) = 1
            /\ \A f \in Xlsx(target_folder) :
                   \/ f \in target_folder'
                   \/ \E a \in archive_folder' :
                          /\ a.content = f.content
                          /\ a.name \in {f.name, Timestamped(f.name, clock)}
                   \/ \E g \in target_folder' : g.name = f.name ]_vars

====
